---- MODULE Spec2Model ----
(***************************************************************************)
(* Model of the netlist database construction of eda-infra-rs:             *)
(* NetlistDB::from_sverilog (netlistdb/src/builder.rs) with the module     *)
(* map (utils.rs), the union-find (disjoint_set.rs) and the CSR builder    *)
(* (csr.rs); of change_cell_type (lib.rs) and post_assign_direction on the *)
(* database returned; and of calls of VecCSR::from, of netlistdb_new       *)
(* (cffi.rs), of SVerilogRange (sverilogparse/src/range.rs), of the        *)
(* literal parser (sverilogparse/src/sverilognom.rs), of HierName          *)
(* equality and hashing (hier_name.rs), of ModuleMap::from and of the      *)
(* DisjointSet methods on their own.                                       *)
(*                                                                         *)
(* Conventions.  A Rust Vec is a TLA+ sequence; ids are 0-based as in the  *)
(* code, so element i of a Vec v is At(v, i).  Option<T> is a sequence of  *)
(* length at most one: None is <<>> and Some(x) is <<x>>.  A hierarchical  *)
(* name is the top-down sequence of its instance names, the empty          *)
(* sequence being HierName::empty().  A HashMap is a function whose        *)
(* DOMAIN is its key set.                                                  *)
(***************************************************************************)
EXTENDS Integers, Sequences, FiniteSets, TLC

None == <<>>
Some(x) == <<x>>
Unwrap(o) == o[1]

At(v, i) == v[i + 1]
(* The function f on 1..n as a sequence value. *)
Vec(f) == f \o <<>>
SetAt(v, i, x) == [v EXCEPT ![i + 1] = x]

RECURSIVE SeqSum(_)
SeqSum(s) == IF s = <<>> THEN 0 ELSE s[1] + SeqSum(Tail(s))

RECURSIVE Flatten(_)
Flatten(ss) == IF ss = <<>> THEN <<>> ELSE ss[1] \o Flatten(Tail(ss))

(***************************************************************************)
(* sverilogparse/src/range.rs                                              *)
(***************************************************************************)
IsizeBits == 5
IsizeMax == 2 ^ (IsizeBits - 1) - 1

SVerilogRangeEmpty == <<IsizeMax, IsizeMax>>

(* get_len, for a range on which its arithmetic stays inside isize *)
SVerilogRangeLen(r) ==
    IF r = SVerilogRangeEmpty THEN 0
    ELSE IF r[1] < r[2] THEN r[2] + 1 - r[1] ELSE r[1] + 1 - r[2]

IsizeMin == -(2 ^ (IsizeBits - 1))

(* The isize that wrapping arithmetic gives for the integer x. *)
WrapIsize(x) == ((x - IsizeMin) % (2 ^ IsizeBits)) + IsizeMin

(* get_len for every range; None is a panic.  With overflow checks (a      *)
(* debug build) `r + 1 - l` panics when r + 1 or the difference leaves     *)
(* isize; without them it wraps, and try_into().unwrap() panics on a       *)
(* negative value.                                                         *)
GetLen(r, overflow_checks) ==
    IF r = SVerilogRangeEmpty THEN Some(0)
    ELSE LET lo == IF r[1] < r[2] THEN r[1] ELSE r[2]
             hi == IF r[1] < r[2] THEN r[2] ELSE r[1]
         IN IF overflow_checks
            THEN IF hi + 1 > IsizeMax \/ hi + 1 - lo > IsizeMax THEN None
                 ELSE Some(SVerilogRangeLen(r))
            ELSE LET d == WrapIsize(WrapIsize(hi + 1) - lo)
                 IN IF d < 0 THEN None ELSE Some(d)

(* Iterator::next: the item yielded (an Option) and the range left. *)
SVerilogRangeNext(r) ==
    IF r = SVerilogRangeEmpty THEN [item |-> None, rest |-> r]
    ELSE [item |-> Some(r[1]),
          rest |-> IF r[1] < r[2] THEN <<r[1] + 1, r[2]>>
                   ELSE IF r[1] > r[2] THEN <<r[1] - 1, r[2]>>
                   ELSE SVerilogRangeEmpty]

(* collect(): the items the iterator yields until it returns None. *)
RECURSIVE SVerilogRangeItems(_)
SVerilogRangeItems(r) ==
    LET n == SVerilogRangeNext(r)
    IN IF n.item = None THEN <<>> ELSE <<Unwrap(n.item)>> \o SVerilogRangeItems(n.rest)

(***************************************************************************)
(* netlistdb/src/disjoint_set.rs                                           *)
(***************************************************************************)
DisjointSetNew == [fa |-> <<>>, value_zero |-> None, value_one |-> None]

(* fa.extend(fa.len()..=u): new nodes are their own group leader. *)
RECURSIVE FaExtend(_, _)
FaExtend(fa, n) == IF Len(fa) >= n THEN fa ELSE FaExtend(Append(fa, Len(fa)), n)

RECURSIVE FaRoot(_, _)
FaRoot(fa, s) == IF At(fa, s) = s THEN s ELSE FaRoot(fa, At(fa, s))

(* a compression that makes every node on the path its own leader *)
RECURSIVE FaCompressToSelf(_, _, _)
FaCompressToSelf(fa, u, s) ==
    IF At(fa, u) = s THEN fa ELSE FaCompressToSelf(SetAt(fa, u, u), At(fa, u), s)

RECURSIVE FaCompress(_, _, _)
FaCompress(fa, u, s) ==
    IF At(fa, u) = s THEN fa ELSE FaCompress(SetAt(fa, u, s), At(fa, u), s)

(* find: the group leader of u, and the parent array after path compression. *)
Find(ds, u) ==
    LET fa1 == FaExtend(ds.fa, u + 1)
        s == FaRoot(fa1, u)
    IN [ds |-> [ds EXCEPT !.fa = FaCompress(fa1, u, s)], root |-> s]

(* merge that re-parents a itself, not its group leader *)
MergeFollower(ds, a, b) ==
    LET fa_ == Find(ds, a)
        fb == Find(fa_.ds, b)
    IN [fb.ds EXCEPT !.fa = SetAt(fb.ds.fa, a, fb.root)]

Merge(ds, a, b) ==
    LET fa_ == Find(ds, a)
        fb == Find(fa_.ds, b)
    IN [fb.ds EXCEPT !.fa = SetAt(fb.ds.fa, fa_.root, fb.root)]

(* set_value that keeps the first node of a constant and merges no other *)
SetValueFirst(ds, a, v) ==
    IF v
    THEN IF ds.value_one = None THEN [ds EXCEPT !.value_one = Some(a)] ELSE ds
    ELSE IF ds.value_zero = None THEN [ds EXCEPT !.value_zero = Some(a)] ELSE ds

SetValue(ds, a, v) ==
    IF v
    THEN IF ds.value_one = None THEN [ds EXCEPT !.value_one = Some(a)]
         ELSE Merge(ds, a, Unwrap(ds.value_one))
    ELSE IF ds.value_zero = None THEN [ds EXCEPT !.value_zero = Some(a)]
         ELSE Merge(ds, a, Unwrap(ds.value_zero))

(* First loop of finalize: self-parent nodes get the next set id. *)
RECURSIVE FinalizeRoots(_, _, _, _)
FinalizeRoots(fa, i, set_indices, num_sets) ==
    IF i >= Len(fa) THEN [set_indices |-> set_indices, num_sets |-> num_sets]
    ELSE IF At(fa, i) = i
         THEN FinalizeRoots(fa, i + 1, SetAt(set_indices, i, num_sets), num_sets + 1)
         ELSE FinalizeRoots(fa, i + 1, set_indices, num_sets)

(* a second loop in which a follower takes the set id of its parent *)
RECURSIVE FinalizeFollowersByParent(_, _, _)
FinalizeFollowersByParent(ds, i, set_indices) ==
    IF i >= Len(ds.fa) THEN set_indices
    ELSE IF At(ds.fa, i) # i
         THEN FinalizeFollowersByParent(ds, i + 1,
                                        SetAt(set_indices, i, At(set_indices, At(ds.fa, i))))
         ELSE FinalizeFollowersByParent(ds, i + 1, set_indices)

(* Second loop of finalize: followers take the set id of find(i). *)
RECURSIVE FinalizeFollowers(_, _, _)
FinalizeFollowers(ds, i, set_indices) ==
    IF i >= Len(ds.fa) THEN set_indices
    ELSE IF At(ds.fa, i) # i
         THEN LET f == Find(ds, i)
              IN FinalizeFollowers(f.ds, i + 1, SetAt(set_indices, i, At(set_indices, f.root)))
         ELSE FinalizeFollowers(ds, i + 1, set_indices)

Finalize(ds, num_nodes) ==
    LET fa1 == FaExtend(SubSeq(ds.fa, 1, IF Len(ds.fa) < num_nodes THEN Len(ds.fa) ELSE num_nodes),
                        num_nodes)
        ds1 == [ds EXCEPT !.fa = fa1]
        r == FinalizeRoots(fa1, 0, Vec([i \in 1..num_nodes |-> 0]), 0)
        set_indices == FinalizeFollowers(ds1, 0, r.set_indices)
        id_zero == IF ds.value_zero = None THEN None
                   ELSE Some(At(set_indices, Unwrap(ds.value_zero)))
        id_one == IF ds.value_one = None THEN None
                  ELSE Some(At(set_indices, Unwrap(ds.value_one)))
    IN [ok |-> ~(id_zero # None /\ id_one # None /\ id_zero = id_one),
        num_sets |-> r.num_sets, set_indices |-> set_indices,
        id_zero |-> id_zero, id_one |-> id_one]

(***************************************************************************)
(* netlistdb/src/csr.rs                                                    *)
(***************************************************************************)
RECURSIVE CsrCount(_, _, _)
CsrCount(start, inset, k) ==
    IF k > Len(inset) THEN start
    ELSE CsrCount(SetAt(start, inset[k], At(start, inset[k]) + 1), inset, k + 1)

RECURSIVE CsrPrefix(_, _, _)
CsrPrefix(start, i, num_sets) ==
    IF i > num_sets THEN start
    ELSE CsrPrefix(SetAt(start, i, At(start, i) + At(start, i - 1)), i + 1, num_sets)

(* A placing loop that walks the items from the first to the last. *)
RECURSIVE CsrPlaceForward(_, _, _, _)
CsrPlaceForward(start, items, inset, i) ==
    IF i < 0 THEN [start |-> start, items |-> items]
    ELSE LET k == Len(inset) - 1 - i
             s == At(inset, k)
             pos == At(start, s) - 1
         IN CsrPlaceForward(SetAt(start, s, pos), SetAt(items, pos, k), inset, i - 1)

(* The placing loop without `start[s] -= 1`. *)
RECURSIVE CsrPlaceKeepStart(_, _, _, _)
CsrPlaceKeepStart(start, items, inset, i) ==
    IF i < 0 THEN [start |-> start, items |-> items]
    ELSE LET s == At(inset, i)
             pos == At(start, s) - 1
         IN CsrPlaceKeepStart(start, SetAt(items, pos, i), inset, i - 1)

RECURSIVE CsrPlace(_, _, _, _)
CsrPlace(start, items, inset, i) ==
    IF i < 0 THEN [start |-> start, items |-> items]
    ELSE LET s == At(inset, i)
             pos == At(start, s) - 1
         IN CsrPlace(SetAt(start, s, pos), SetAt(items, pos, i), inset, i - 1)

(* VecCSR::from *)
VecCSRFrom(num_sets, num_items, inset) ==
    LET counted == CsrCount(Vec([i \in 1..(num_sets + 1) |-> 0]), inset, 1)
        summed == CsrPrefix(counted, 1, num_sets)
    IN CsrPlace(summed, Vec([i \in 1..num_items |-> 0]), inset, num_items - 1)

(* VecCSR::iter_set *)
IterSet(csr, set_id) ==
    SubSeq(csr.items, At(csr.start, set_id) + 1, At(csr.start, set_id + 1))

(***************************************************************************)
(* Identifiers.  CompactString comparison is byte-wise lexicographic; the  *)
(* identifiers the model uses are listed in that order.                    *)
(***************************************************************************)
IdentOrder ==
    <<"", "BUF", "INV", "a", "g", "i", "n", "o", "p", "s1", "sub", "top",
      "u1", "u2", "u3", "u4", "v", "w", "y">>
IdentRank(s) == CHOOSE k \in 1..Len(IdentOrder) : IdentOrder[k] = s
StrLt(s, t) == IdentRank(s) < IdentRank(t)

(***************************************************************************)
(* sverilogparse/src/lib.rs: the parsed structures.                        *)
(***************************************************************************)
Full(s) == [k |-> "Full", s |-> s]
SingleBit(s, i) == [k |-> "SingleBit", s |-> s, i |-> i]
Slice(s, l, r) == [k |-> "Slice", s |-> s, range |-> <<l, r>>]
Literal(size, value, is_xz) == [k |-> "Literal", size |-> size, value |-> value, is_xz |-> is_xz]
Basic(eb) == [k |-> "Basic", v |-> <<eb>>]
Concat(v) == [k |-> "Concat", v |-> v]

PortBasic(name) == [k |-> "Basic", name |-> name, expr |-> Basic(Full(name))]
PortConn(name, expr) == [k |-> "Conn", name |-> name, expr |-> expr]
WireDef(typ, width, name) == [name |-> name, width |-> width, typ |-> typ]
Assign(lhs, rhs) == [lhs |-> lhs, rhs |-> rhs]
Cell(macro_name, cell_name, ioports) ==
    [macro_name |-> macro_name, cell_name |-> cell_name, ioports |-> ioports]
Module(ports, defs, assigns, cells) ==
    [ports |-> ports, defs |-> defs, assigns |-> assigns, cells |-> cells]

(* ExprBit *)
Const(c) == [k |-> "Const", c |-> c]
Var(name, idx) == [k |-> "Var", name |-> name, idx |-> idx]

(***************************************************************************)
(* netlistdb/src/utils.rs                                                  *)
(***************************************************************************)
EmptyMap == [x \in {} |-> 0]
MapPut(f, key, val) == (key :> val) @@ f
MapGet(f, key) == IF key \in DOMAIN f THEN Some(f[key]) ELSE None

(* enum_in_width: None enumerates the single index None. *)
EnumInWidth(w) ==
    IF w = None THEN <<None>>
    ELSE LET items == SVerilogRangeItems(Unwrap(w))
         IN Vec([j \in 1..Len(items) |-> Some(items[j])])

(* Iterator::zip stops with the shorter of the two. *)
Zip(s, t) ==
    Vec([j \in 1..(IF Len(s) < Len(t) THEN Len(s) ELSE Len(t)) |-> <<s[j], t[j]>>])

LenBasic(def_widths, eb) ==
    CASE eb.k = "Full" ->
            IF eb.s \in DOMAIN def_widths THEN SVerilogRangeLen(def_widths[eb.s]) ELSE 1
      [] eb.k = "SingleBit" -> 1
      [] eb.k = "Slice" -> SVerilogRangeLen(eb.range)
      [] eb.k = "Literal" -> eb.size

EvalExprLen(def_widths, expr) ==
    SeqSum([j \in 1..Len(expr.v) |-> LenBasic(def_widths, expr.v[j])])

Bit(x, i) == (x \div (2 ^ i)) % 2

EvalBasic(def_widths, eb) ==
    CASE eb.k = "Full" ->
            IF eb.s \in DOMAIN def_widths
            THEN LET items == SVerilogRangeItems(def_widths[eb.s])
                 IN Vec([j \in 1..Len(items) |-> Var(eb.s, Some(items[j]))])
            ELSE <<Var(eb.s, None)>>
      [] eb.k = "SingleBit" -> <<Var(eb.s, Some(eb.i))>>
      [] eb.k = "Slice" ->
            LET items == SVerilogRangeItems(eb.range)
            IN Vec([j \in 1..Len(items) |-> Var(eb.s, Some(items[j]))])
      [] eb.k = "Literal" ->
            Vec([j \in 1..eb.size |->
                    Const(Bit(eb.is_xz, eb.size - j) * 2 + Bit(eb.value, eb.size - j))])

(* ModuleMap::eval_expr *)
EvalExpr(mm, expr) ==
    Flatten([j \in 1..Len(expr.v) |-> EvalBasic(mm.def_widths, expr.v[j])])

RECURSIVE DefWidths(_, _, _)
DefWidths(defs, j, acc) ==
    IF j > Len(defs) THEN acc
    ELSE DefWidths(defs, j + 1,
                   IF defs[j].width = None THEN acc
                   ELSE MapPut(acc, defs[j].name, Unwrap(defs[j].width)))

(* a def_types loop in which every later definition replaces the type *)
RECURSIVE DefTypesLastWins(_, _, _)
DefTypesLastWins(defs, j, acc) ==
    IF j > Len(defs) THEN [conflict |-> FALSE, def_types |-> acc]
    ELSE DefTypesLastWins(defs, j + 1, MapPut(acc, defs[j].name, defs[j].typ))

(* The def_types loop; conflict is TRUE when assert_eq!(v, typ) fails. *)
RECURSIVE DefTypes(_, _, _)
DefTypes(defs, j, acc) ==
    IF j > Len(defs) THEN [conflict |-> FALSE, def_types |-> acc]
    ELSE LET name == defs[j].name
             typ == defs[j].typ
         IN IF name \in DOMAIN acc
            THEN IF acc[name] = "Wire" /\ typ \in {"Input", "Output", "InOut"}
                 THEN DefTypes(defs, j + 1, MapPut(acc, name, typ))
                 ELSE IF typ = "Wire" THEN DefTypes(defs, j + 1, acc)
                 ELSE IF acc[name] = typ THEN DefTypes(defs, j + 1, acc)
                 ELSE [conflict |-> TRUE, def_types |-> acc]
            ELSE DefTypes(defs, j + 1, MapPut(acc, name, typ))

ExprBasicHasVector(def_widths, eb) ==
    CASE eb.k = "Full" -> eb.s \in DOMAIN def_widths
      [] eb.k = "SingleBit" -> FALSE
      [] eb.k = "Slice" -> TRUE
      [] eb.k = "Literal" -> FALSE

(* The range of one port, as an Option. *)
PortWidth(def_widths, port) ==
    IF port.k = "Basic" THEN MapGet(def_widths, port.name)
    ELSE LET width == EvalExprLen(def_widths, port.expr)
         IN IF width > 1 THEN Some(<<width - 1, 0>>)
            ELSE IF \E j \in 1..Len(port.expr.v) : ExprBasicHasVector(def_widths, port.expr.v[j])
                 THEN Some(<<0, 0>>)
                 ELSE None

RECURSIVE PortWidths(_, _, _, _)
PortWidths(def_widths, ports, j, acc) ==
    IF j > Len(ports) THEN acc
    ELSE LET w == PortWidth(def_widths, ports[j])
         IN PortWidths(def_widths, ports, j + 1,
                       IF w = None THEN acc ELSE MapPut(acc, ports[j].name, Unwrap(w)))

(* ModuleMap::from; panic is TRUE when the conflicting-def assertion fails. *)
ModuleMapFrom(m) ==
    LET def_widths == DefWidths(m.defs, 1, EmptyMap)
        dt == DefTypes(m.defs, 1, EmptyMap)
    IN [panic |-> dt.conflict,
        def_widths |-> def_widths,
        def_types |-> dt.def_types,
        port_widths |-> PortWidths(def_widths, m.ports, 1, EmptyMap)]


(***************************************************************************)
(* netlistdb/src/builder.rs: the pin-info providers.  "closure" is the     *)
(* Fn provider of the tests (direction by pin name), "nodirection" is      *)
(* NoDirection.  Both answer None to width_of.                             *)
(***************************************************************************)
DirectionOf(lib, macro_name, pin_name, pin_idx) ==
    IF lib = "nodirection" THEN "Unknown"
    ELSE IF pin_name \in {"a", "i"} THEN "I"
    ELSE IF pin_name = "o" THEN "O"
    ELSE "Unknown"

WidthOf(lib, macro_name, pin_name) == None

(***************************************************************************)
(* netlistdb/src/builder.rs: phase 1, build_modules.                       *)
(* The builder state b carries the database db under construction, the    *)
(* union-find net_sets, the flag ok (FALSE once a `?` has returned None)   *)
(* and a history of the connections made: conn is the set of merged        *)
(* logic-pin pairs, tied0 and tied1 the logic pins given to                *)
(* set_value(_, false) and set_value(_, true).                             *)
(***************************************************************************)
IsPin(t) == t \in {"TopPort", "LeafCellPin"}
IsNet(t) == t \in {"TopPort", "Net"}

GetOrInsertLogicPin(b, hier, name, idx) ==
    LET key == <<hier, name, idx>>
    IN IF key \in DOMAIN b.db.logicpinname2id
       THEN [b |-> b, id |-> b.db.logicpinname2id[key]]
       ELSE [b |-> [b EXCEPT !.db.num_logic_pins = @ + 1,
                             !.db.logicpinname2id = MapPut(@, key, b.db.num_logic_pins),
                             !.db.logicpintypes = Append(@, "Others"),
                             !.db.logicpinnames = Append(@, key)],
             id |-> b.db.num_logic_pins]

TryFindLogicPin(b, hier, name, idx) == MapGet(b.db.logicpinname2id, <<hier, name, idx>>)

(* insert_cell that puts the new cell in front of the other leaf cells *)
InsertCellFront(b, hier, macro_name) ==
    [b EXCEPT !.db.num_cells = @ + 1,
              !.db.cellname2id = MapPut(@, hier, b.db.num_cells),
              !.db.celltypes = <<@[1], macro_name>> \o Tail(@),
              !.db.cellnames = <<@[1], hier>> \o Tail(@)]

InsertCell(b, hier, macro_name) ==
    [b EXCEPT !.db.num_cells = @ + 1,
              !.db.cellname2id = MapPut(@, hier, b.db.num_cells),
              !.db.celltypes = Append(@, macro_name),
              !.db.cellnames = Append(@, hier)]

SetLogicPinType(b, id, t) == [b EXCEPT !.db.logicpintypes = SetAt(@, id, t)]

NetMerge(b, l, r) ==
    [b EXCEPT !.net_sets = Merge(@, l, r), !.conn = @ \cup {{l, r}}]

(* pin_assign_literal that returns on an x or a z without a set_value *)
PinAssignLiteralSkipX(b, l, c) ==
    CASE c = 0 -> [b EXCEPT !.net_sets = SetValue(@, l, FALSE), !.tied0 = @ \cup {l}]
      [] c = 1 -> [b EXCEPT !.net_sets = SetValue(@, l, TRUE), !.tied1 = @ \cup {l}]
      [] c = 2 -> b
      [] c = 3 -> b

PinAssignLiteral(b, l, c) ==
    CASE c = 0 -> [b EXCEPT !.net_sets = SetValue(@, l, FALSE), !.tied0 = @ \cup {l}]
      [] c = 1 -> [b EXCEPT !.net_sets = SetValue(@, l, TRUE), !.tied1 = @ \cup {l}]
      [] c = 2 -> [b EXCEPT !.net_sets = SetValue(@, l, FALSE), !.tied0 = @ \cup {l}]
      [] c = 3 -> b

Fail(b) == [b EXCEPT !.ok = FALSE]

(* create nets/IO logic pins: one def, bit j of its width onwards *)
RECURSIVE DefBits(_, _, _, _, _)
DefBits(b, hier, name, ws, j) ==
    IF j > Len(ws) THEN b
    ELSE LET g == GetOrInsertLogicPin(b, hier, name, ws[j])
         IN DefBits(SetLogicPinType(g.b, g.id, "Net"), hier, name, ws, j + 1)

RECURSIVE DefLoop(_, _, _, _)
DefLoop(b, defs, hier, j) ==
    IF j > Len(defs) THEN b
    ELSE DefLoop(DefBits(b, hier, defs[j].name, EnumInWidth(defs[j].width), 1),
                 defs, hier, j + 1)

(* create named ports: the zipped (index, bit) pairs of one port *)
RECURSIVE NamedPortBits(_, _, _, _, _)
NamedPortBits(b, hier, name, pairs, j) ==
    IF ~b.ok \/ j > Len(pairs) THEN b
    ELSE LET g == GetOrInsertLogicPin(b, hier, name, pairs[j][1])
             eb == pairs[j][2]
         IN IF eb.k = "Const"
            THEN NamedPortBits(PinAssignLiteral(g.b, g.id, eb.c), hier, name, pairs, j + 1)
            ELSE LET f == TryFindLogicPin(g.b, hier, eb.name, eb.idx)
                 IN IF f = None THEN Fail(g.b)
                    ELSE NamedPortBits(NetMerge(g.b, g.id, Unwrap(f)), hier, name, pairs, j + 1)

RECURSIVE NamedPortLoop(_, _, _, _, _)
NamedPortLoop(b, m, mm, hier, j) ==
    IF ~b.ok \/ j > Len(m.ports) THEN b
    ELSE IF m.ports[j].k = "Basic" THEN NamedPortLoop(b, m, mm, hier, j + 1)
    ELSE LET width == MapGet(mm.port_widths, m.ports[j].name)
             pairs == Zip(EnumInWidth(width), EvalExpr(mm, m.ports[j].expr))
         IN NamedPortLoop(NamedPortBits(b, hier, m.ports[j].name, pairs, 1),
                          m, mm, hier, j + 1)

(* connect edges: the zipped (index, bit) pairs of one cell connection *)
RECURSIVE ConnectBits(_, _, _, _, _, _, _)
ConnectBits(b, hier, new_hier, is_leaf, name, pairs, j) ==
    IF ~b.ok \/ j > Len(pairs) THEN b
    ELSE LET i == pairs[j][1]
             eb == pairs[j][2]
             found == TryFindLogicPin(b, new_hier, name, i)
         IN IF ~is_leaf /\ found = None THEN Fail(b)
            ELSE LET g == IF is_leaf THEN GetOrInsertLogicPin(b, new_hier, name, i)
                          ELSE [b |-> b, id |-> Unwrap(found)]
                     b1 == IF is_leaf THEN SetLogicPinType(g.b, g.id, "LeafCellPin") ELSE g.b
                 IN IF eb.k = "Const"
                    THEN ConnectBits(PinAssignLiteral(b1, g.id, eb.c),
                                     hier, new_hier, is_leaf, name, pairs, j + 1)
                    ELSE LET e == GetOrInsertLogicPin(b1, hier, eb.name, eb.idx)
                             b2 == IF At(e.b.db.logicpintypes, e.id) = "Others"
                                   THEN SetLogicPinType(e.b, e.id, "Net") ELSE e.b
                         IN ConnectBits(NetMerge(b2, g.id, e.id),
                                        hier, new_hier, is_leaf, name, pairs, j + 1)

(* ioport_ranges: the range of connection j of a cell, as an Option *)
IoportRange(modules, mm, cell, j, lib) ==
    IF cell.macro_name \in DOMAIN modules
    THEN MapGet(modules[cell.macro_name].mm.port_widths, cell.ioports[j][1])
    ELSE IF EvalExprLen(mm.def_widths, cell.ioports[j][2]) = 1 THEN None
         ELSE WidthOf(lib, cell.macro_name, cell.ioports[j][1])

RECURSIVE ConnectLoop(_, _, _, _, _, _, _, _)
ConnectLoop(b, modules, mm, hier, new_hier, cell, lib, j) ==
    IF ~b.ok \/ j > Len(cell.ioports) THEN b
    ELSE LET w == IoportRange(modules, mm, cell, j, lib)
             pairs == Zip(EnumInWidth(w), EvalExpr(mm, cell.ioports[j][2]))
         IN ConnectLoop(ConnectBits(b, hier, new_hier, cell.macro_name \notin DOMAIN modules,
                                    cell.ioports[j][1], pairs, 1),
                        modules, mm, hier, new_hier, cell, lib, j + 1)

(* connect assignments: the zipped bit pairs of one assignment *)
RECURSIVE AssignBits(_, _, _, _)
AssignBits(b, hier, pairs, j) ==
    IF ~b.ok \/ j > Len(pairs) THEN b
    ELSE LET lb == pairs[j][1]
             rb == pairs[j][2]
         IN CASE lb.k = "Var" /\ rb.k = "Var" ->
                    LET l == GetOrInsertLogicPin(b, hier, lb.name, lb.idx)
                        r == GetOrInsertLogicPin(l.b, hier, rb.name, rb.idx)
                    IN AssignBits(NetMerge(r.b, l.id, r.id), hier, pairs, j + 1)
              [] lb.k = "Var" /\ rb.k = "Const" ->
                    LET l == GetOrInsertLogicPin(b, hier, lb.name, lb.idx)
                    IN AssignBits(PinAssignLiteral(l.b, l.id, rb.c), hier, pairs, j + 1)
              [] lb.k = "Const" /\ rb.k = "Var" ->
                    LET r == GetOrInsertLogicPin(b, hier, rb.name, rb.idx)
                    IN AssignBits(PinAssignLiteral(r.b, r.id, lb.c), hier, pairs, j + 1)
              [] OTHER -> Fail(b)

(* The loop without the comparison of the two widths. *)
RECURSIVE AssignLoopNoWidthCheck(_, _, _, _, _)
AssignLoopNoWidthCheck(b, m, mm, hier, j) ==
    IF ~b.ok \/ j > Len(m.assigns) THEN b
    ELSE AssignLoopNoWidthCheck(
             AssignBits(b, hier, Zip(EvalExpr(mm, m.assigns[j].lhs),
                                     EvalExpr(mm, m.assigns[j].rhs)), 1),
             m, mm, hier, j + 1)

RECURSIVE AssignLoop(_, _, _, _, _)
AssignLoop(b, m, mm, hier, j) ==
    IF ~b.ok \/ j > Len(m.assigns) THEN b
    ELSE LET lhs == m.assigns[j].lhs
             rhs == m.assigns[j].rhs
         IN IF EvalExprLen(mm.def_widths, lhs) # EvalExprLen(mm.def_widths, rhs) THEN Fail(b)
            ELSE AssignLoop(AssignBits(b, hier, Zip(EvalExpr(mm, lhs), EvalExpr(mm, rhs)), 1),
                            m, mm, hier, j + 1)

RECURSIVE BuildModules(_, _, _, _, _)
RECURSIVE CellLoop(_, _, _, _, _, _)

(* recurse into submodules and cells *)
CellLoop(b, modules, m_name, hier, lib, j) ==
    LET m == modules[m_name].m
        mm == modules[m_name].mm
    IN IF ~b.ok \/ j > Len(m.cells) THEN b
       ELSE LET cell == m.cells[j]
                new_hier == Append(hier, cell.cell_name)
                b1 == IF cell.macro_name \in DOMAIN modules
                      THEN BuildModules(b, modules, cell.macro_name, new_hier, lib)
                      ELSE InsertCell(b, new_hier, cell.macro_name)
            IN CellLoop(ConnectLoop(b1, modules, mm, hier, new_hier, cell, lib, 1),
                        modules, m_name, hier, lib, j + 1)

BuildModules(b, modules, m_name, hier, lib) ==
    LET m == modules[m_name].m
        mm == modules[m_name].mm
        b1 == DefLoop(b, m.defs, hier, 1)
        b2 == NamedPortLoop(b1, m, mm, hier, 1)
        b3 == CellLoop(b2, modules, m_name, hier, lib, 1)
    IN AssignLoop(b3, m, mm, hier, 1)


(***************************************************************************)
(* netlistdb/src/utils.rs: find_top_module and estimate_size.              *)
(***************************************************************************)
(* find_top_module that guesses some unreferenced module when it finds     *)
(* several.                                                                *)
FindTopModuleAnyUnref(modules, top) ==
    IF DOMAIN modules = {} THEN None
    ELSE IF top # None
         THEN IF Unwrap(top) \in DOMAIN modules THEN top ELSE None
    ELSE IF Cardinality(DOMAIN modules) # 1
         THEN LET referenced ==
                      {c \in DOMAIN modules :
                          \E k \in DOMAIN modules : \E j \in 1..Len(modules[k].m.cells) :
                              modules[k].m.cells[j].macro_name = c}
                  unrefs == DOMAIN modules \ referenced
              IN IF unrefs # {} THEN Some(CHOOSE u \in unrefs : TRUE) ELSE None
    ELSE Some(CHOOSE u \in DOMAIN modules : TRUE)

(* The name of the top module as an Option; None is the error return. *)
FindTopModule(modules, top) ==
    IF DOMAIN modules = {} THEN None
    ELSE IF top # None
         THEN IF Unwrap(top) \in DOMAIN modules THEN top ELSE None
    ELSE IF Cardinality(DOMAIN modules) # 1
         THEN LET referenced ==
                      {c \in DOMAIN modules :
                          \E k \in DOMAIN modules : \E j \in 1..Len(modules[k].m.cells) :
                              modules[k].m.cells[j].macro_name = c}
                  unrefs == DOMAIN modules \ referenced
              IN IF Cardinality(unrefs) = 1 THEN Some(CHOOSE u \in unrefs : TRUE) ELSE None
    ELSE Some(CHOOSE u \in DOMAIN modules : TRUE)

DefLen(def) == IF def.width = None THEN 1 ELSE SVerilogRangeLen(Unwrap(def.width))

RECURSIVE EstimateSize(_, _, _, _)
RECURSIVE EstimateCells(_, _, _, _, _, _)

(* dive into cells: acc is (num_cells, num_logic_pins) so far *)
EstimateCells(modules, parent_modules, cur_name, cache, j, acc) ==
    LET cells == modules[cur_name].m.cells
        cur_mm == modules[cur_name].mm
    IN IF j > Len(cells) THEN [ok |-> TRUE, size |-> acc, cache |-> cache]
       ELSE IF cells[j].macro_name \in DOMAIN modules
            THEN LET r == EstimateSize(modules, parent_modules, cells[j].macro_name, cache)
                 IN IF ~r.ok THEN r
                    ELSE EstimateCells(modules, parent_modules, cur_name, r.cache, j + 1,
                                       <<acc[1] + r.size[1], acc[2] + r.size[2]>>)
            ELSE EstimateCells(modules, parent_modules, cur_name, cache, j + 1,
                               <<acc[1] + 1,
                                 acc[2] + SeqSum([q \in 1..Len(cells[j].ioports) |->
                                     EvalExprLen(cur_mm.def_widths, cells[j].ioports[q][2])])>>)

(* estimate_size that takes a module met again below itself for an empty   *)
(* one instead of failing                                                  *)
EstimateSizeNoRecursionCheck(modules, parent_modules, cur_name, cache) ==
    IF cur_name \in DOMAIN cache
    THEN [ok |-> TRUE, size |-> cache[cur_name], cache |-> cache]
    ELSE IF cur_name \in parent_modules
         THEN [ok |-> TRUE, size |-> <<0, 0>>, cache |-> cache]
    ELSE LET cur_m == modules[cur_name].m
             cur_mm == modules[cur_name].mm
             pins0 == SeqSum([j \in 1..Len(cur_m.defs) |-> DefLen(cur_m.defs[j])])
                      + SeqSum([j \in 1..Len(cur_m.ports) |->
                            IF cur_m.ports[j].k = "Basic" THEN 0
                            ELSE EvalExprLen(cur_mm.def_widths, cur_m.ports[j].expr)])
             r == EstimateCells(modules, parent_modules \cup {cur_name}, cur_name, cache, 1,
                                <<0, pins0>>)
         IN IF ~r.ok THEN r
            ELSE [ok |-> TRUE, size |-> r.size, cache |-> MapPut(r.cache, cur_name, r.size)]

EstimateSize(modules, parent_modules, cur_name, cache) ==
    IF cur_name \in DOMAIN cache
    THEN [ok |-> TRUE, size |-> cache[cur_name], cache |-> cache]
    ELSE IF cur_name \in parent_modules
         THEN [ok |-> FALSE, size |-> <<0, 0>>, cache |-> cache]
    ELSE LET cur_m == modules[cur_name].m
             cur_mm == modules[cur_name].mm
             pins0 == SeqSum([j \in 1..Len(cur_m.defs) |-> DefLen(cur_m.defs[j])])
                      + SeqSum([j \in 1..Len(cur_m.ports) |->
                            IF cur_m.ports[j].k = "Basic" THEN 0
                            ELSE EvalExprLen(cur_mm.def_widths, cur_m.ports[j].expr)])
             r == EstimateCells(modules, parent_modules \cup {cur_name}, cur_name, cache, 1,
                                <<0, pins0>>)
         IN IF ~r.ok THEN r
            ELSE [ok |-> TRUE, size |-> r.size, cache |-> MapPut(r.cache, cur_name, r.size)]

(***************************************************************************)
(* netlistdb/src/builder.rs: init_graph_from_modules.                      *)
(***************************************************************************)
EmptyCSR == [start |-> <<>>, items |-> <<>>]

(* The NetlistDB value init_graph_from_modules starts from. *)
NewNetlistDB(top_name) ==
    [name |-> top_name, num_cells |-> 1, num_pins |-> 0, num_logic_pins |-> 0, num_nets |-> 0,
     cellname2id |-> MapPut(EmptyMap, <<>>, 0), logicpinname2id |-> EmptyMap,
     pinname2id |-> EmptyMap, netname2id |-> EmptyMap, portname2pinid |-> EmptyMap,
     celltypes |-> <<top_name>>, cellnames |-> << <<>> >>,
     logicpintypes |-> <<>>, logicpinnames |-> <<>>, pinid2logicpinid |-> <<>>,
     netnames |-> <<>>, pinnames |-> <<>>,
     pin2cell |-> <<>>, pin2net |-> <<>>, cell2pin |-> EmptyCSR, net2pin |-> EmptyCSR,
     pindirect |-> <<>>, cell2noutputs |-> <<>>, net_zero |-> None, net_one |-> None]

(* set TopPort property for top module ports: bits ws[j..] of one port *)
RECURSIVE TagPortBits(_, _, _, _)
TagPortBits(b, name, ws, j) ==
    IF ~b.ok \/ j > Len(ws) THEN b
    ELSE LET f == TryFindLogicPin(b, <<>>, name, ws[j])
         IN IF f = None THEN Fail(b)
            ELSE TagPortBits(SetLogicPinType(b, Unwrap(f), "TopPort"), name, ws, j + 1)

RECURSIVE TagTopPorts(_, _, _, _)
TagTopPorts(b, top_m, top_mm, j) ==
    IF ~b.ok \/ j > Len(top_m.ports) THEN b
    ELSE TagTopPorts(
             TagPortBits(b, top_m.ports[j].name,
                         EnumInWidth(MapGet(top_mm.port_widths, top_m.ports[j].name)), 1),
             top_m, top_mm, j + 1)

(* The pin index with the pins of leaf cells before the top ports. *)
PinId2LogicPinIdPortsLast(logicpintypes) ==
    SelectSeq(Vec([q \in 1..Len(logicpintypes) |-> q - 1]),
              LAMBDA id : At(logicpintypes, id) = "LeafCellPin")
    \o SelectSeq(Vec([q \in 1..Len(logicpintypes) |-> q - 1]),
                 LAMBDA id : At(logicpintypes, id) = "TopPort")

(* finalize pin index: the logic pins that are pins, in increasing order *)
PinId2LogicPinId(logicpintypes) ==
    SelectSeq(Vec([q \in 1..Len(logicpintypes) |-> q - 1]),
              LAMBDA id : IsPin(At(logicpintypes, id)))

(* Task 1: pinname2id -> pin2cell -> cell2pin.  panic is the failed unwrap *)
(* of cellname2id.get(hier).                                                *)
TaskPin2Cell(db) ==
    LET pinname2id ==
            [key \in {At(db.logicpinnames, At(db.pinid2logicpinid, i)) : i \in 0..(db.num_pins - 1)}
                |-> CHOOSE i \in 0..(db.num_pins - 1) :
                        At(db.logicpinnames, At(db.pinid2logicpinid, i)) = key]
        missing == \E key \in DOMAIN pinname2id : key[1] \notin DOMAIN db.cellname2id
        pin2cell == Vec([q \in 1..db.num_pins |->
                        db.cellname2id[At(db.logicpinnames, At(db.pinid2logicpinid, q - 1))[1]]])
    IN IF missing
       THEN [panic |-> TRUE, pinname2id |-> pinname2id, pin2cell |-> <<>>, cell2pin |-> EmptyCSR]
       ELSE [panic |-> FALSE, pinname2id |-> pinname2id, pin2cell |-> pin2cell,
             cell2pin |-> VecCSRFrom(db.num_cells, db.num_pins, pin2cell)]

(* Task 2: pinnames *)
TaskPinnames(db) ==
    Vec([q \in 1..db.num_pins |-> At(db.logicpinnames, At(db.pinid2logicpinid, q - 1))])

(* Task 3: pin2net -> net2pin *)
TaskPin2Net(db, logicpin2nets) ==
    LET pin2net == Vec([q \in 1..db.num_pins |->
                           At(logicpin2nets, At(db.pinid2logicpinid, q - 1))])
    IN [pin2net |-> pin2net, net2pin |-> VecCSRFrom(db.num_nets, db.num_pins, pin2net)]

(* Task 4: netname2id and netnames. *)
NetName2Id(db, logicpin2nets) ==
    [key \in {At(db.logicpinnames, i) : i \in {q \in 0..(db.num_logic_pins - 1) :
                                                 IsNet(At(db.logicpintypes, q))}}
        |-> At(logicpin2nets, db.logicpinname2id[key])]

EmptyNetName == << <<>>, "", None >>

(* The comparison without its identifier tie-break. *)
BetterNameByDepth(netname, current_name) ==
    \/ current_name[2] = ""
    \/ Len(netname[1]) < Len(current_name[1])

(* One iteration of "find the best name for each net". *)
BetterName(netname, current_name) ==
    \/ current_name[2] = ""
    \/ Len(netname[1]) < Len(current_name[1])
    \/ (Len(netname[1]) = Len(current_name[1]) /\ StrLt(netname[2], current_name[2]))

(* One iteration of the loop: the entry of the key's net afterwards. *)
NetStep(current_name, netname) ==
    IF BetterName(netname, current_name) THEN netname ELSE current_name

(* The entries netnames[n] can hold once the loop has visited the keys of  *)
(* net n, in any order.  frontier holds the pairs <<keys visited, entry>>  *)
(* that the same number of iterations can reach.                           *)
RECURSIVE NetVisits(_, _)
NetVisits(keys, frontier) ==
    IF \A f \in frontier : f[1] = keys THEN {f[2] : f \in frontier}
    ELSE NetVisits(keys,
                   UNION {{<<f[1] \cup {key}, NetStep(f[2], key)>> : key \in keys \ f[1]} :
                             f \in frontier})

(* The loop run over the keys of net n alone, from each result in rs;      *)
(* panic is the out-of-range index netnames[*id].                          *)
NetOrderResults(netname2id, rs, n) ==
    LET keys == {key \in DOMAIN netname2id : netname2id[key] = n}
    IN UNION {IF r.panic THEN {r}
              ELSE IF n >= Len(r.netnames) THEN {[r EXCEPT !.panic = TRUE]}
              ELSE {[r EXCEPT !.netnames = SetAt(@, n, e)] :
                       e \in NetVisits(keys, {<<{}, At(r.netnames, n)>>})} :
                 r \in rs}

RECURSIVE NetnamesResults(_, _, _)
NetnamesResults(netname2id, rs, ids) ==
    IF ids = {} THEN rs
    ELSE LET n == CHOOSE x \in ids : \A y \in ids : x <= y
         IN NetnamesResults(netname2id, NetOrderResults(netname2id, rs, n), ids \ {n})

(* Every result the netnames loop can have over the iteration orders of    *)
(* the HashMap netname2id.  An iteration reads and writes netnames[id] of  *)
(* its key's own net only, so the result is decided by the relative order  *)
(* of the keys of each net: the loop is run net by net.                    *)
TaskNetnames(netname2id) ==
    NetnamesResults(netname2id,
                    {[panic |-> FALSE,
                      netnames |-> Vec([q \in 1..Cardinality(DOMAIN netname2id) |-> EmptyNetName])]},
                    {netname2id[key] : key \in DOMAIN netname2id})

(* The bits of one port entered under the port's own name and bit. *)
RECURSIVE PortPinBitsByPortName(_, _, _, _, _)
PortPinBitsByPortName(db, acc, name, pairs, j) ==
    IF acc.panic \/ j > Len(pairs) THEN acc
    ELSE LET eb == pairs[j][2]
             key == << <<>>, name, pairs[j][1] >>
         IN IF eb.k = "Const" THEN PortPinBitsByPortName(db, acc, name, pairs, j + 1)
            ELSE IF key \notin DOMAIN db.logicpinname2id
                    \/ ~IsPin(At(db.logicpintypes, db.logicpinname2id[key]))
                 THEN [acc EXCEPT !.panic = TRUE]
            ELSE LET lpi == db.logicpinname2id[key]
                     id == CHOOSE i \in 0..(db.num_pins - 1) : At(db.pinid2logicpinid, i) = lpi
                 IN PortPinBitsByPortName(
                        db, [acc EXCEPT !.map = MapPut(@, <<name, pairs[j][1]>>, id)],
                        name, pairs, j + 1)

(* Task 5: portname2pinid.  Bits (w, eb) of one port, from j on. *)
RECURSIVE PortPinBits(_, _, _, _, _)
PortPinBits(db, acc, name, pairs, j) ==
    IF acc.panic \/ j > Len(pairs) THEN acc
    ELSE LET eb == pairs[j][2]
             key == << <<>>, name, pairs[j][1] >>
         IN IF eb.k = "Const" THEN PortPinBits(db, acc, name, pairs, j + 1)
            ELSE IF key \notin DOMAIN db.logicpinname2id
                    \/ ~IsPin(At(db.logicpintypes, db.logicpinname2id[key]))
                 THEN [acc EXCEPT !.panic = TRUE]
            ELSE LET lpi == db.logicpinname2id[key]
                     id == CHOOSE i \in 0..(db.num_pins - 1) : At(db.pinid2logicpinid, i) = lpi
                 IN PortPinBits(db, [acc EXCEPT !.map = MapPut(@, <<eb.name, eb.idx>>, id)],
                                name, pairs, j + 1)

RECURSIVE PortPinLoop(_, _, _, _, _)
PortPinLoop(db, acc, top_m, top_mm, j) ==
    IF acc.panic \/ j > Len(top_m.ports) THEN acc
    ELSE LET port == top_m.ports[j]
             width == MapGet(top_mm.port_widths, port.name)
         IN PortPinLoop(db,
                        PortPinBits(db, acc, port.name,
                                    Zip(EnumInWidth(width), EvalExpr(top_mm, port.expr)), 1),
                        top_m, top_mm, j + 1)

TaskPortname2Pinid(db, top_m, top_mm) ==
    PortPinLoop(db, [panic |-> FALSE, map |-> EmptyMap], top_m, top_mm, 1)


(***************************************************************************)
(* netlistdb/src/builder.rs: assign_direction and post_assign_direction.   *)
(***************************************************************************)
(* query the provider for cell pins *)
InitialPindirect(db, lib) ==
    Vec([q \in 1..db.num_pins |->
            IF At(db.logicpintypes, At(db.pinid2logicpinid, q - 1)) = "TopPort" THEN "Unknown"
            ELSE DirectionOf(lib, At(db.celltypes, At(db.pin2cell, q - 1)),
                             At(db.pinnames, q - 1)[2], At(db.pinnames, q - 1)[3])])

(* The match with the port's own direction: an input is I, an output O. *)
DirOfDefTypeSame(deftype) ==
    CASE deftype = "Input" -> "I"
      [] deftype = "Output" -> "O"
      [] deftype = "InOut" -> "Unknown"

DirOfDefType(deftype) ==
    CASE deftype = "Input" -> "O"
      [] deftype = "Output" -> "I"
      [] deftype = "InOut" -> "Unknown"

(* query the module definition for ports: bits ws[j..] of one port.  refs  *)
(* are the bits of the connected expression of a named port connection;    *)
(* a bare port repeats its own name.  status is "ok", "none" (return None) *)
(* or "panic" (the Const arm, or the failed unwrap of pinname2id.get).     *)
RECURSIVE PortDirBits(_, _, _, _, _, _)
PortDirBits(r, top_mm, port, ws, refs, j) ==
    IF r.status # "ok" \/ j > Len(ws) THEN r
    ELSE IF port.k = "Conn" /\ j > Len(refs) THEN r
    ELSE IF port.k = "Conn" /\ refs[j].k = "Const" THEN [r EXCEPT !.status = "panic"]
    ELSE LET ref_name == IF port.k = "Basic" THEN port.name ELSE refs[j].name
             key == << <<>>, port.name, ws[j] >>
         IN IF ref_name \notin DOMAIN top_mm.def_types THEN [r EXCEPT !.status = "none"]
            ELSE IF top_mm.def_types[ref_name] = "Wire" THEN [r EXCEPT !.status = "none"]
            ELSE IF key \notin DOMAIN r.db.pinname2id THEN [r EXCEPT !.status = "panic"]
            ELSE PortDirBits(
                     [r EXCEPT !.db.pindirect =
                         SetAt(@, r.db.pinname2id[key], DirOfDefType(top_mm.def_types[ref_name]))],
                     top_mm, port, ws, refs, j + 1)

RECURSIVE PortDirLoop(_, _, _, _)
PortDirLoop(r, top_m, top_mm, j) ==
    IF r.status # "ok" \/ j > Len(top_m.ports) THEN r
    ELSE LET port == top_m.ports[j]
         IN PortDirLoop(
                PortDirBits(r, top_mm, port,
                            EnumInWidth(MapGet(top_mm.port_widths, port.name)),
                            EvalExpr(top_mm, port.expr), 1),
                top_m, top_mm, j + 1)

(* assign_direction up to the call of post_assign_direction *)
AssignDirection(db, top_m, top_mm, lib) ==
    PortDirLoop([status |-> "ok", db |-> [db EXCEPT !.pindirect = InitialPindirect(db, lib)]],
                top_m, top_mm, 1)

(* The positions l..r-1 of net2pin.items that hold a pin of direction O. *)
NetOuts(db, items, l, r) ==
    LET keep(pos) == At(db.pindirect, At(items, pos)) = "O"
    IN SelectSeq(Vec([q \in 1..(r - l) |-> l + q - 1]), keep)

(* a swap that leaves the vector as it is *)
SwapNothing(v, i, j) == v

Swap(v, i, j) == [v EXCEPT ![i + 1] = v[j + 1], ![j + 1] = v[i + 1]]

(* The loop over the nets without the check for a second driver. *)
RECURSIVE CanonicalizeFirstDriver(_, _, _)
CanonicalizeFirstDriver(db, items, i) ==
    IF i >= db.num_nets THEN [ok |-> TRUE, items |-> items]
    ELSE LET l == At(db.net2pin.start, i)
             r == At(db.net2pin.start, i + 1)
             outs == NetOuts(db, items, l, r)
         IN IF Len(outs) = 0 THEN CanonicalizeFirstDriver(db, items, i + 1)
            ELSE CanonicalizeFirstDriver(db, Swap(items, l, outs[1]), i + 1)

(* The loop over the nets that swaps the ends of the slice of a driven net. *)
RECURSIVE CanonicalizeSwapEnds(_, _, _)
CanonicalizeSwapEnds(db, items, i) ==
    IF i >= db.num_nets THEN [ok |-> TRUE, items |-> items]
    ELSE LET l == At(db.net2pin.start, i)
             r == At(db.net2pin.start, i + 1)
             outs == NetOuts(db, items, l, r)
         IN IF Len(outs) = 0 THEN CanonicalizeSwapEnds(db, items, i + 1)
            ELSE IF Len(outs) # 1 THEN [ok |-> FALSE, items |-> items]
            ELSE CanonicalizeSwapEnds(db, Swap(items, l, r - 1), i + 1)

(* The loop over the nets of post_assign_direction. *)
RECURSIVE CanonicalizeDrivers(_, _, _)
CanonicalizeDrivers(db, items, i) ==
    IF i >= db.num_nets THEN [ok |-> TRUE, items |-> items]
    ELSE LET l == At(db.net2pin.start, i)
             r == At(db.net2pin.start, i + 1)
             outs == NetOuts(db, items, l, r)
         IN IF Len(outs) = 0 THEN CanonicalizeDrivers(db, items, i + 1)
            ELSE IF Len(outs) # 1 THEN [ok |-> FALSE, items |-> items]
            ELSE CanonicalizeDrivers(db, Swap(items, l, outs[1]), i + 1)

(* The count without the filter on the direction. *)
CellNumPins(db, cellid) == Len(IterSet(db.cell2pin, cellid))

CellNumOutputs(db, cellid) ==
    Len(SelectSeq(IterSet(db.cell2pin, cellid), LAMBDA pinid : At(db.pindirect, pinid) = "O"))

PostAssignDirection(db) ==
    LET c == CanonicalizeDrivers(db, db.net2pin.items, 0)
        db1 == [db EXCEPT !.net2pin.items = c.items]
    IN IF ~c.ok THEN [ok |-> FALSE, db |-> db1]
       ELSE [ok |-> TRUE,
             db |-> [db1 EXCEPT !.cell2noutputs =
                        Vec([q \in 1..db.num_cells |-> CellNumOutputs(db1, q - 1)])]]


(***************************************************************************)
(* The inputs: a parsed source of two modules, `top` and `sub`, the        *)
(* optional top-module name and the pin-info provider.  The top module     *)
(* takes one of the port lists and one of the definition lists below, up   *)
(* to MaxCells of the cells of CellPool and up to MaxAssigns of the        *)
(* assignments of AssignPool, in the order of the pool.                    *)
(***************************************************************************)
MaxCells == 2
MaxAssigns == 2

Conn(pin, expr) == <<pin, expr>>

(* module sub(i, o); input i; output o; INV g(.a(i), .o(o)); endmodule *)
SubModule ==
    Module(<<PortBasic("i"), PortBasic("o")>>,
           <<WireDef("Input", None, "i"), WireDef("Output", None, "o")>>,
           <<>>,
           <<Cell("INV", "g", <<Conn("a", Basic(Full("i"))), Conn("o", Basic(Full("o")))>>)>>)

TopPortsPool ==
    { (* (a, y) *)
      <<PortBasic("a"), PortBasic("y")>>,
      (* (a, .p({y, y})) *)
      <<PortBasic("a"), PortConn("p", Concat(<<Full("y"), Full("y")>>))>>,
      (* (a, .p({y, 1'b0})) *)
      <<PortBasic("a"), PortConn("p", Concat(<<Full("y"), Literal(1, 0, 0)>>))>> }

TopDefsPool ==
    { (* input a; output y; wire n; wire [1:0] v; *)
      <<WireDef("Input", None, "a"), WireDef("Output", None, "y"), WireDef("Wire", None, "n"),
        WireDef("Wire", Some(<<1, 0>>), "v")>>,
      (* input a; output y; wire n; input y; *)
      <<WireDef("Input", None, "a"), WireDef("Output", None, "y"), WireDef("Wire", None, "n"),
        WireDef("Input", None, "y")>> }

CellPool ==
    << (* INV u1(.a(a), .o(n)); *)
       Cell("INV", "u1", <<Conn("a", Basic(Full("a"))), Conn("o", Basic(Full("n")))>>),
       (* sub s1(.i(n), .o(y)); *)
       Cell("sub", "s1", <<Conn("i", Basic(Full("n"))), Conn("o", Basic(Full("y")))>>),
       (* INV u2(.a(1'b0), .o(y)); *)
       Cell("INV", "u2", <<Conn("a", Basic(Literal(1, 0, 0))), Conn("o", Basic(Full("y")))>>),
       (* INV u3(.a(1'b1), .o(n)); *)
       Cell("INV", "u3", <<Conn("a", Basic(Literal(1, 1, 0))), Conn("o", Basic(Full("n")))>>),
       (* BUF u4(.a(v), .o(w)); *)
       Cell("BUF", "u4", <<Conn("a", Basic(Full("v"))), Conn("o", Basic(Full("w")))>>) >>

AssignPool ==
    << (* assign y = n; *)
       Assign(Basic(Full("y")), Basic(Full("n"))),
       (* assign n = 1'bx; *)
       Assign(Basic(Full("n")), Basic(Literal(1, 0, 1))),
       (* assign v[1] = v[0]; *)
       Assign(Basic(SingleBit("v", 1)), Basic(SingleBit("v", 0))),
       (* assign n = 1'b1; *)
       Assign(Basic(Full("n")), Basic(Literal(1, 1, 0))) >>

(* The elements of pool at the positions of S, in the order of the pool. *)
RECURSIVE Pick(_, _, _)
Pick(pool, S, j) ==
    IF j > Len(pool) THEN <<>>
    ELSE (IF j \in S THEN <<pool[j]>> ELSE <<>>) \o Pick(pool, S, j + 1)

Choices(pool, max) ==
    {Pick(pool, S, 1) : S \in {T \in SUBSET (1..Len(pool)) : Cardinality(T) <= max}}

Sources ==
    { << <<"top", Module(ports, defs, assigns, cells)>>, <<"sub", SubModule>> >> :
        ports \in TopPortsPool, defs \in TopDefsPool,
        assigns \in Choices(AssignPool, MaxAssigns), cells \in Choices(CellPool, MaxCells) }

(* module sub(i, o); input i; output o; top t(.a(i), .y(o)); endmodule *)
SubCyclic ==
    Module(<<PortBasic("i"), PortBasic("o")>>,
           <<WireDef("Input", None, "i"), WireDef("Output", None, "o")>>,
           <<>>,
           <<Cell("top", "t", <<Conn("a", Basic(Full("i"))), Conn("y", Basic(Full("o")))>>)>>)

(* (a, y) *)
StdPorts == <<PortBasic("a"), PortBasic("y")>>

(* input a; output y; wire n; wire [1:0] v; *)
StdDefs ==
    <<WireDef("Input", None, "a"), WireDef("Output", None, "y"), WireDef("Wire", None, "n"),
      WireDef("Wire", Some(<<1, 0>>), "v")>>

(* Further top modules, one for each case the pools leave out. *)
ExtraTops ==
    { (* an inout port: (a, y); input a; inout y; wire n; INV u1(..); assign y = n; *)
      Module(StdPorts,
             <<WireDef("Input", None, "a"), WireDef("InOut", None, "y"), WireDef("Wire", None, "n")>>,
             <<AssignPool[1]>>, <<CellPool[1]>>),
      (* a named port on a plain wire: (a, .p({y, n})) *)
      Module(<<PortBasic("a"), PortConn("p", Concat(<<Full("y"), Full("n")>>))>>,
             StdDefs, <<>>, <<>>),
      (* a named port on a literal and a plain wire: (a, .p({1'b0, n})) *)
      Module(<<PortBasic("a"), PortConn("p", Concat(<<Literal(1, 0, 0), Full("n")>>))>>,
             StdDefs, <<>>, <<>>),
      (* a port without a definition: (a, w); INV u6(.a(a), .o(w)); *)
      Module(<<PortBasic("a"), PortBasic("w")>>, StdDefs, <<>>,
             <<Cell("INV", "u6", <<Conn("a", Basic(Full("a"))), Conn("o", Basic(Full("w")))>>)>>),
      (* sides of different widths: assign v = n; *)
      Module(StdPorts, StdDefs, <<Assign(Basic(Full("v")), Basic(Full("n")))>>, <<>>),
      (* a literal against a literal: assign {n, 1'b0} = {1'b1, 1'b1}; *)
      Module(StdPorts, StdDefs,
             <<Assign(Concat(<<Full("n"), Literal(1, 0, 0)>>),
                      Concat(<<Literal(1, 1, 0), Literal(1, 1, 0)>>))>>,
             <<>>),
      (* the literal on the left: INV u1(..); assign 1'b1 = n; *)
      Module(StdPorts, StdDefs, <<Assign(Basic(Literal(1, 1, 0)), Basic(Full("n")))>>,
             <<CellPool[1]>>),
      (* z, x and 1 literals: INV u3(.a(1'b1), .o(n)); INV u5(.a(1'bz), .o(y)); *)
      (* assign n = 1'bx;                                                       *)
      Module(StdPorts, StdDefs, <<AssignPool[2]>>,
             <<CellPool[4],
               Cell("INV", "u5", <<Conn("a", Basic(Literal(1, 1, 1))), Conn("o", Basic(Full("y")))>>)>>) }

ExtraSources ==
    { << <<"top", m>>, <<"sub", SubModule>> >> : m \in ExtraTops }
    \cup { (* top and sub instantiate each other *)
           << <<"top", Module(StdPorts, StdDefs, <<>>, <<CellPool[2]>>)>>, <<"sub", SubCyclic>> >>,
           (* top instantiates itself: top t(.a(a), .y(n)); *)
           << <<"top", Module(StdPorts, StdDefs, <<>>,
                              <<Cell("top", "t", <<Conn("a", Basic(Full("a"))),
                                                   Conn("y", Basic(Full("n")))>>)>>)>>,
              <<"sub", SubModule>> >>,
           (* top instantiates sub, then loop; loop instantiates sub, then itself *)
           << <<"top", Module(StdPorts, StdDefs, <<>>,
                              <<CellPool[2],
                                Cell("loop", "l1", <<Conn("i", Basic(Full("a"))),
                                                     Conn("o", Basic(Full("n")))>>)>>)>>,
              <<"sub", SubModule>>,
              <<"loop", Module(<<PortBasic("i"), PortBasic("o")>>,
                               <<WireDef("Input", None, "i"), WireDef("Output", None, "o")>>,
                               <<>>,
                               <<Cell("sub", "s1", <<Conn("i", Basic(Full("i"))),
                                                     Conn("o", Basic(Full("o")))>>),
                                 Cell("loop", "l2", <<Conn("i", Basic(Full("i"))),
                                                      Conn("o", Basic(Full("o")))>>)>>)>> >> }

(* The `top` argument: absent, a module of the source, or no module of it. *)
Tops == {None, Some("top"), Some("missing")}

Providers == {"closure", "nodirection"}

(***************************************************************************)
(* The state machine: one call of NetlistDB::from_sverilog.                *)
(***************************************************************************)
VARIABLES
    call,             \* the library function called, with its plain arguments
    result,           \* what a call of a pure function returned, an Option
    sverilog_source,  \* the parsed source: a Vec of (name, module)
    top,              \* the `top` argument, an Option
    lib,              \* the direction provider
    pc,               \* the position in from_sverilog; "Some", "None" and
                      \* "Panic" are its three ways to end
    modules,          \* name -> [m, mm]
    top_name,         \* the result of find_top_module
    est,              \* the result of estimate_size
    db,               \* the NetlistDB under construction
    net_sets,         \* the DisjointSet
    hist,             \* the connections made by build_modules
    logicpin2nets,    \* the set indices returned by finalize
    ret               \* the ret_* slots of the five tasks

vars == <<call, result, sverilog_source, top, lib, pc, modules, top_name, est, db, net_sets, hist,
          logicpin2nets, ret>>

TaskNames == {"pin2cell", "pinnames", "pin2net", "netnames", "portname2pinid"}

NoRet ==
    [done |-> {}, panic |-> FALSE,
     pinname2id |-> None, pin2cell |-> None, cell2pin |-> None, pinnames |-> None,
     pin2net |-> None, net2pin |-> None, netname2id |-> None, netnames |-> None,
     portname2pinid |-> None]

NoHist == [conn |-> {}, tied0 |-> {}, tied1 |-> {}]

Init ==
    /\ call = <<"NetlistDB::from_sverilog">>
    /\ result = None
    /\ sverilog_source \in Sources \cup ExtraSources
    /\ top \in Tops
    /\ lib \in Providers
    /\ pc = "module_maps"
    /\ modules = EmptyMap
    /\ top_name = None
    /\ est = <<0, 0>>
    /\ db = NewNetlistDB("")
    /\ net_sets = DisjointSetNew
    /\ hist = NoHist
    /\ logicpin2nets = <<>>
    /\ ret = NoRet

RECURSIVE CollectModules(_, _, _)
CollectModules(source, j, acc) ==
    IF j > Len(source) THEN acc
    ELSE CollectModules(source, j + 1,
                        MapPut(acc, source[j][1],
                               [m |-> source[j][2], mm |-> ModuleMapFrom(source[j][2])]))

(* from_sverilog: the module maps; a conflicting definition panics. *)
ModuleMaps ==
    /\ pc = "module_maps"
    /\ IF \E j \in 1..Len(sverilog_source) : ModuleMapFrom(sverilog_source[j][2]).panic
       THEN pc' = "Panic" /\ UNCHANGED modules
       ELSE pc' = "find_top" /\ modules' = CollectModules(sverilog_source, 1, EmptyMap)
    /\ UNCHANGED <<call, result, sverilog_source, top, lib, top_name, est, db, net_sets, hist,
                   logicpin2nets, ret>>

(* from_sverilog: find_top_module(&modules, top)? *)
FindTop ==
    /\ pc = "find_top"
    /\ top_name' = FindTopModule(modules, top)
    /\ pc' = IF top_name' = None THEN "None" ELSE "estimate"
    /\ UNCHANGED <<call, result, sverilog_source, top, lib, modules, est, db, net_sets, hist,
                   logicpin2nets, ret>>

(* init_graph_from_modules: estimate_size(..)?, then the new database. *)
Estimate ==
    /\ pc = "estimate"
    /\ LET r == EstimateSize(modules, {}, Unwrap(top_name), EmptyMap)
       IN IF r.ok
          THEN /\ pc' = "build"
               /\ est' = <<r.size[1] + 1, r.size[2]>>
               /\ db' = NewNetlistDB(Unwrap(top_name))
          ELSE pc' = "None" /\ UNCHANGED <<est, db>>
    /\ UNCHANGED <<call, result, sverilog_source, top, lib, modules, top_name, net_sets, hist,
                   logicpin2nets, ret>>

(* init_graph_from_modules: db.build_modules(..)? *)
Build ==
    /\ pc = "build"
    /\ LET b == BuildModules([ok |-> TRUE, db |-> db, net_sets |-> net_sets,
                              conn |-> {}, tied0 |-> {}, tied1 |-> {}],
                             modules, Unwrap(top_name), <<>>, lib)
       IN /\ pc' = IF b.ok THEN "tag" ELSE "None"
          /\ db' = b.db
          /\ net_sets' = b.net_sets
          /\ hist' = [conn |-> b.conn, tied0 |-> b.tied0, tied1 |-> b.tied1]
    /\ UNCHANGED <<call, result, sverilog_source, top, lib, modules, top_name, est, logicpin2nets, ret>>

(* init_graph_from_modules: set TopPort property for top module ports. *)
TagPorts ==
    /\ pc = "tag"
    /\ LET b == TagTopPorts([ok |-> TRUE, db |-> db], modules[Unwrap(top_name)].m,
                            modules[Unwrap(top_name)].mm, 1)
       IN pc' = (IF b.ok THEN "finalize" ELSE "None") /\ db' = b.db
    /\ UNCHANGED <<call, result, sverilog_source, top, lib, modules, top_name, est, net_sets, hist,
                   logicpin2nets, ret>>

(* init_graph_from_modules: net_sets.finalize(..)? and the pin index. *)
FinalizeNets ==
    /\ pc = "finalize"
    /\ LET f == Finalize(net_sets, db.num_logic_pins)
           pins == PinId2LogicPinId(db.logicpintypes)
       IN IF f.ok
          THEN /\ pc' = "tasks"
               /\ logicpin2nets' = f.set_indices
               /\ db' = [db EXCEPT !.num_nets = f.num_sets, !.net_zero = f.id_zero,
                                   !.net_one = f.id_one, !.pinid2logicpinid = pins,
                                   !.num_pins = Len(pins)]
          ELSE pc' = "None" /\ UNCHANGED <<db, logicpin2nets>>
    /\ UNCHANGED <<call, result, sverilog_source, top, lib, modules, top_name, est, net_sets, hist, ret>>

Forked(t) == pc = "tasks" /\ t \notin ret.done

Pin2CellTask ==
    /\ Forked("pin2cell")
    /\ LET r == TaskPin2Cell(db)
       IN ret' = IF r.panic
                 THEN [ret EXCEPT !.done = @ \cup {"pin2cell"}, !.panic = TRUE]
                 ELSE [ret EXCEPT !.done = @ \cup {"pin2cell"},
                                  !.pinname2id = Some(r.pinname2id),
                                  !.pin2cell = Some(r.pin2cell),
                                  !.cell2pin = Some(r.cell2pin)]
    /\ UNCHANGED <<call, result, sverilog_source, top, lib, pc, modules, top_name, est, db, net_sets, hist,
                   logicpin2nets>>

PinnamesTask ==
    /\ Forked("pinnames")
    /\ ret' = [ret EXCEPT !.done = @ \cup {"pinnames"}, !.pinnames = Some(TaskPinnames(db))]
    /\ UNCHANGED <<call, result, sverilog_source, top, lib, pc, modules, top_name, est, db, net_sets, hist,
                   logicpin2nets>>

Pin2NetTask ==
    /\ Forked("pin2net")
    /\ LET r == TaskPin2Net(db, logicpin2nets)
       IN ret' = [ret EXCEPT !.done = @ \cup {"pin2net"},
                             !.pin2net = Some(r.pin2net), !.net2pin = Some(r.net2pin)]
    /\ UNCHANGED <<call, result, sverilog_source, top, lib, pc, modules, top_name, est, db, net_sets, hist,
                   logicpin2nets>>

NetnamesTask ==
    /\ Forked("netnames")
    /\ LET netname2id == NetName2Id(db, logicpin2nets)
       IN \E r \in TaskNetnames(netname2id) :
             ret' = IF r.panic
                    THEN [ret EXCEPT !.done = @ \cup {"netnames"}, !.panic = TRUE]
                    ELSE [ret EXCEPT !.done = @ \cup {"netnames"},
                                     !.netname2id = Some(netname2id),
                                     !.netnames = Some(r.netnames)]
    /\ UNCHANGED <<call, result, sverilog_source, top, lib, pc, modules, top_name, est, db, net_sets, hist,
                   logicpin2nets>>

Portname2PinidTask ==
    /\ Forked("portname2pinid")
    /\ LET r == TaskPortname2Pinid(db, modules[Unwrap(top_name)].m, modules[Unwrap(top_name)].mm)
       IN ret' = IF r.panic
                 THEN [ret EXCEPT !.done = @ \cup {"portname2pinid"}, !.panic = TRUE]
                 ELSE [ret EXCEPT !.done = @ \cup {"portname2pinid"},
                                  !.portname2pinid = Some(r.map)]
    /\ UNCHANGED <<call, result, sverilog_source, top, lib, pc, modules, top_name, est, db, net_sets, hist,
                   logicpin2nets>>

(* an installation that waits for the pinnames task only and leaves the    *)
(* table of a task that has not written its slot as it was                 *)
InstallAfterPinnames ==
    /\ pc = "tasks"
    /\ "pinnames" \in ret.done
    /\ IF ret.panic
       THEN pc' = "Panic" /\ UNCHANGED db
       ELSE /\ pc' = "assign_direction"
            /\ db' = [db EXCEPT !.pinnames = Unwrap(ret.pinnames),
                                !.pin2cell = IF ret.pin2cell = None THEN @
                                             ELSE Unwrap(ret.pin2cell)]
    /\ UNCHANGED <<call, result, sverilog_source, top, lib, modules, top_name, est, net_sets, hist,
                   logicpin2nets, ret>>

(* init_graph_from_modules: the scope has joined; install the results. *)
Install ==
    /\ pc = "tasks"
    /\ ret.done = TaskNames
    /\ IF ret.panic
       THEN pc' = "Panic" /\ UNCHANGED db
       ELSE /\ pc' = "assign_direction"
            /\ db' = [db EXCEPT !.pinname2id = Unwrap(ret.pinname2id),
                                !.pin2cell = Unwrap(ret.pin2cell),
                                !.cell2pin = Unwrap(ret.cell2pin),
                                !.pinnames = Unwrap(ret.pinnames),
                                !.pin2net = Unwrap(ret.pin2net),
                                !.net2pin = Unwrap(ret.net2pin),
                                !.netname2id = Unwrap(ret.netname2id),
                                !.netnames = Unwrap(ret.netnames),
                                !.portname2pinid = Unwrap(ret.portname2pinid)]
    /\ UNCHANGED <<call, result, sverilog_source, top, lib, modules, top_name, est, net_sets, hist,
                   logicpin2nets, ret>>

(* from_sverilog: db.assign_direction(..)?, up to post_assign_direction *)
AssignDirectionStep ==
    /\ pc = "assign_direction"
    /\ LET r == AssignDirection(db, modules[Unwrap(top_name)].m,
                                modules[Unwrap(top_name)].mm, lib)
       IN /\ pc' = CASE r.status = "ok" -> "post_assign_direction"
                     [] r.status = "none" -> "None"
                     [] r.status = "panic" -> "Panic"
          /\ db' = r.db
    /\ UNCHANGED <<call, result, sverilog_source, top, lib, modules, top_name, est, net_sets, hist,
                   logicpin2nets, ret>>

(* assign_direction: self.post_assign_direction()?; then Some(db) *)
PostAssignDirectionStep ==
    /\ pc = "post_assign_direction"
    /\ LET r == PostAssignDirection(db)
       IN pc' = (IF r.ok THEN "Some" ELSE "None") /\ db' = r.db
    /\ UNCHANGED <<call, result, sverilog_source, top, lib, modules, top_name, est, net_sets, hist,
                   logicpin2nets, ret>>

Next ==
    \/ ModuleMaps
    \/ FindTop
    \/ Estimate
    \/ Build
    \/ TagPorts
    \/ FinalizeNets
    \/ Pin2CellTask
    \/ PinnamesTask
    \/ Pin2NetTask
    \/ NetnamesTask
    \/ Portname2PinidTask
    \/ Install
    \/ AssignDirectionStep
    \/ PostAssignDirectionStep

Spec == Init /\ [][Next]_vars

(***************************************************************************)
(* A call of VecCSR::from alone, for every mapping of up to MaxItems items *)
(* to up to MaxSets sets.                                                  *)
(***************************************************************************)
MaxSets == 3
MaxItems == 4

Insets(num_sets, num_items) ==
    {Vec(f) : f \in [1..num_items -> 0..(num_sets - 1)]}

InitCSR ==
    /\ call \in UNION {{<<"VecCSR::from", num_sets, num_items, inset>> :
                            inset \in Insets(num_sets, num_items)} :
                         num_sets \in 0..MaxSets, num_items \in 0..MaxItems}
    /\ result = None
    /\ sverilog_source = <<>>
    /\ top = None
    /\ lib = "closure"
    /\ pc = "lib"
    /\ modules = EmptyMap
    /\ top_name = None
    /\ est = <<0, 0>>
    /\ db = NewNetlistDB("")
    /\ net_sets = DisjointSetNew
    /\ hist = NoHist
    /\ logicpin2nets = <<>>
    /\ ret = NoRet

CsrFrom ==
    /\ call[1] = "VecCSR::from"
    /\ result = None
    /\ result' = Some(VecCSRFrom(call[2], call[3], call[4]))
    /\ UNCHANGED <<call, sverilog_source, top, lib, pc, modules, top_name, est, db, net_sets,
                   hist, logicpin2nets, ret>>

NextCSR == CsrFrom

SpecCSR == InitCSR /\ [][NextCSR]_vars

(* The library: a call of from_sverilog or a call of VecCSR::from. *)
InitLib == Init \/ InitCSR

NextLib == Next \/ NextCSR

SpecLib == InitLib /\ [][NextLib]_vars

(***************************************************************************)
(* sverilogparse/src/range.rs: len() and collect() of SVerilogRange(i, j), *)
(* for every pair of isize values, in a build with and in a build without  *)
(* overflow checks.                                                        *)
(***************************************************************************)
Isizes == IsizeMin..IsizeMax

InitRange ==
    /\ call \in {<<"SVerilogRange", i, j, overflow_checks>> :
                    i \in Isizes, j \in Isizes, overflow_checks \in BOOLEAN}
    /\ result = None
    /\ sverilog_source = <<>>
    /\ top = None
    /\ lib = "closure"
    /\ pc = "lib"
    /\ modules = EmptyMap
    /\ top_name = None
    /\ est = <<0, 0>>
    /\ db = NewNetlistDB("")
    /\ net_sets = DisjointSetNew
    /\ hist = NoHist
    /\ logicpin2nets = <<>>
    /\ ret = NoRet

(* r.len(), then r.collect::<Vec<_>>() *)
RangeLenCollect ==
    /\ call[1] = "SVerilogRange"
    /\ result = None
    /\ result' = Some([len |-> GetLen(<<call[2], call[3]>>, call[4]),
                       items |-> SVerilogRangeItems(<<call[2], call[3]>>)])
    /\ UNCHANGED <<call, sverilog_source, top, lib, pc, modules, top_name, est, db, net_sets,
                   hist, logicpin2nets, ret>>

NextRange == RangeLenCollect

SpecRange == InitRange /\ [][NextRange]_vars

(***************************************************************************)
(* netlistdb/src/lib.rs: change_cell_type on the database from_sverilog    *)
(* has returned, called once with any cell id up to num_cells (one past    *)
(* the last cell) and a macro name of CellTypes.                           *)
(***************************************************************************)
CellTypes == {"BUF", "INV"}

(* change_cell_type that renames every cell of the macro of cellid *)
ChangeCellTypeOfMacro(d, cellid, new_cell_type) ==
    LET old == At(d.celltypes, cellid)
    IN [d EXCEPT !.celltypes =
           Vec([k \in 1..Len(d.celltypes) |->
                   IF d.celltypes[k] = old THEN new_cell_type ELSE d.celltypes[k]])]

(* self.celltypes[cellid] = new_cell_type *)
ChangeCellType(d, cellid, new_cell_type) ==
    [d EXCEPT !.celltypes = SetAt(@, cellid, new_cell_type)]

(* The index celltypes[cellid] panics for a cell id out of range. *)
ChangeCellTypeCall ==
    /\ pc = "Some"
    /\ call[1] = "NetlistDB::from_sverilog"
    /\ \E cellid \in 0..db.num_cells, new_cell_type \in CellTypes :
          /\ call' = <<"NetlistDB::change_cell_type", cellid, new_cell_type>>
          /\ IF cellid < Len(db.celltypes)
             THEN db' = ChangeCellType(db, cellid, new_cell_type) /\ pc' = pc
             ELSE pc' = "Panic" /\ UNCHANGED db
    /\ UNCHANGED <<result, sverilog_source, top, lib, modules, top_name, est, net_sets, hist,
                   logicpin2nets, ret>>

(* The public post_assign_direction, called once on the database that      *)
(* from_sverilog has returned, before or after change_cell_type; result is *)
(* whether it returned Some(()).                                           *)
PostAssignDirectionCall ==
    /\ pc = "Some"
    /\ call[1] # "NetlistDB::post_assign_direction"
    /\ LET r == PostAssignDirection(db)
       IN /\ call' = <<"NetlistDB::post_assign_direction">>
          /\ db' = r.db
          /\ result' = Some(r.ok)
    /\ UNCHANGED <<sverilog_source, top, lib, pc, modules, top_name, est, net_sets, hist,
                   logicpin2nets, ret>>

NextDB == Next \/ ChangeCellTypeCall \/ PostAssignDirectionCall

SpecDB == Init /\ [][NextDB]_vars

(***************************************************************************)
(* netlistdb/src/cffi.rs: a call of netlistdb_new, for every interface of  *)
(* up to MaxCffiCells cells, MaxCffiNets nets and MaxCffiPins pins whose   *)
(* arrays have the lengths the interface states and whose cell and net     *)
(* indices are in range.  The name arrays, and the name maps and           *)
(* constant_nets built from them, play no part in the two passes and are   *)
(* not part of the model.                                                  *)
(***************************************************************************)
MaxCffiCells == 2
MaxCffiNets == 2
MaxCffiPins == 3

(* The values of a u8 the match tells apart: 0, 1 and any other. *)
DirectionBytes == 0..2

(* match value { 0 => Direction::I, 1 => Direction::O, _ => Unknown } *)
DecodeDirection(value) ==
    IF value = 0 THEN "I" ELSE IF value = 1 THEN "O" ELSE "Unknown"

(* netlistdb_new: the instance built, then post_assign_direction, whose    *)
(* None is logged and ignored.                                             *)
NetlistdbNew(num_cells, num_pins, num_nets, pindirection_array, pin2cell_array, pin2net_array) ==
    LET netlistdb_instance ==
            [NewNetlistDB("") EXCEPT
                !.num_cells = num_cells, !.num_pins = num_pins, !.num_nets = num_nets,
                !.cellname2id = EmptyMap, !.celltypes = <<>>, !.cellnames = <<>>,
                !.pin2cell = pin2cell_array,
                !.cell2pin = VecCSRFrom(num_cells, num_pins, pin2cell_array),
                !.pin2net = pin2net_array,
                !.net2pin = VecCSRFrom(num_nets, num_pins, pin2net_array),
                !.pindirect = Vec([q \in 1..num_pins |-> DecodeDirection(pindirection_array[q])])]
    IN PostAssignDirection(netlistdb_instance).db

InitCffi ==
    /\ call \in UNION {{<<"netlistdb_new", num_cells, num_pins, num_nets,
                            pindirection_array, pin2cell_array, pin2net_array>> :
                            pindirection_array \in {Vec(f) : f \in [1..num_pins -> DirectionBytes]},
                            pin2cell_array \in Insets(num_cells, num_pins),
                            pin2net_array \in Insets(num_nets, num_pins)} :
                         num_cells \in 1..MaxCffiCells, num_pins \in 0..MaxCffiPins,
                         num_nets \in 0..MaxCffiNets}
    /\ result = None
    /\ sverilog_source = <<>>
    /\ top = None
    /\ lib = "closure"
    /\ pc = "lib"
    /\ modules = EmptyMap
    /\ top_name = None
    /\ est = <<0, 0>>
    /\ db = NewNetlistDB("")
    /\ net_sets = DisjointSetNew
    /\ hist = NoHist
    /\ logicpin2nets = <<>>
    /\ ret = NoRet

CffiNew ==
    /\ call[1] = "netlistdb_new"
    /\ result = None
    /\ result' = Some(NetlistdbNew(call[2], call[3], call[4], call[5], call[6], call[7]))
    /\ UNCHANGED <<call, sverilog_source, top, lib, pc, modules, top_name, est, db, net_sets,
                   hist, logicpin2nets, ret>>

NextCffi == CffiNew

SpecCffi == InitCffi /\ [][NextCffi]_vars

(***************************************************************************)
(* sverilogparse/src/sverilognom.rs: literal, on the width, the radix and  *)
(* the digit bytes its tuple parser hands to the closure.  A byte is a     *)
(* one-character string; the value is decoded for widths up to 128, where  *)
(* the result is a single Literal.                                         *)
(***************************************************************************)
MaxLitWidth == 8
MaxDigits == 3

(* The bytes take_till1 accepts, one of each kind the decoder tells apart. *)
LitBytes == {"0", "1", "7", "f", "x", "z", "X", "Z", "_"}

(* The digit a byte stands for; a letter beyond f is no digit of a radix   *)
(* up to 16.                                                               *)
LitDigit(c) ==
    CASE c = "0" -> 0 [] c = "1" -> 1 [] c = "7" -> 7 [] c = "f" -> 15 [] OTHER -> 36

RECURSIVE LitValue(_, _, _, _)
LitValue(src, radix, j, acc) ==
    IF j > Len(src) THEN acc
    ELSE LitValue(src, radix, j + 1, IF src[j] = "_" THEN acc ELSE acc * radix + LitDigit(src[j]))

(* ExtAwi::from_bytes_radix(None, src, radix, bw): None stands for its Err *)
(* (no digit, a byte that is no digit of the radix, a value of more than   *)
(* bw bits), on which the caller's unwrap panics.                          *)
FromBytesRadix(src, radix, bw) ==
    IF \A j \in 1..Len(src) : src[j] = "_" THEN None
    ELSE IF \E j \in 1..Len(src) : src[j] # "_" /\ LitDigit(src[j]) >= radix THEN None
    ELSE IF LitValue(src, radix, 1, 0) >= 2 ^ bw THEN None
    ELSE Some(LitValue(src, radix, 1, 0))

(* The closure of literal: None is a panic, Some(ret) the Vec returned.    *)
(* The loop over hexint from its last byte writes the digits other than _  *)
(* right-aligned into tmp_value and tmp_is_xz and leaves pos at the first  *)
(* one written; pos -= 1 panics when there are more digits than            *)
(* full_ndigits.                                                           *)
LiteralDecode(width, radix, hexint) ==
    IF width = 0 THEN None
    ELSE
    LET has_xz == \E j \in 1..Len(hexint) : hexint[j] \in {"x", "z"}
        radix_full_char == CASE radix = 2 -> "1" [] radix = 8 -> "7" [] OTHER -> "f"
        radix_bits == CASE radix = 2 -> 1 [] radix = 8 -> 3 [] OTHER -> 4
        full_ndigits == (width + radix_bits - 1) \div radix_bits
        digits == SelectSeq(hexint, LAMBDA c : c # "_")
        pos == full_ndigits - Len(digits)
        d_value(c) == CASE c = "x" -> "0" [] c = "z" -> radix_full_char [] OTHER -> c
        d_is_xz(c) == IF c \in {"x", "z"} THEN radix_full_char ELSE "0"
        extend == pos # 0 /\ d_is_xz(digits[1]) = radix_full_char
        tmp_value == Vec([j \in 1..full_ndigits |->
                            IF j > pos THEN d_value(digits[j - pos])
                            ELSE IF extend THEN d_value(digits[1]) ELSE "0"])
        tmp_is_xz == Vec([j \in 1..full_ndigits |->
                            IF j > pos THEN d_is_xz(digits[j - pos])
                            ELSE IF extend THEN d_is_xz(digits[1]) ELSE "0"])
        value == IF has_xz THEN FromBytesRadix(tmp_value, radix, full_ndigits * radix_bits)
                 ELSE FromBytesRadix(hexint, radix, width)
        is_xz == IF has_xz THEN FromBytesRadix(tmp_is_xz, radix, full_ndigits * radix_bits)
                 ELSE Some(0)
        mask == 2 ^ width
    IN IF has_xz /\ radix = 10 THEN None
       ELSE IF has_xz /\ pos < 0 THEN None
       ELSE IF value = None \/ is_xz = None THEN None
       ELSE Some(<<Literal(width, Unwrap(value) % mask, Unwrap(is_xz) % mask)>>)

(* literal called by the parser *)
LiteralCall ==
    /\ call[1] = "literal"
    /\ result = None
    /\ result' = Some(LiteralDecode(call[2], call[3], call[4]))
    /\ UNCHANGED <<call, sverilog_source, top, lib, pc, modules, top_name, est, db, net_sets,
                   hist, logicpin2nets, ret>>

(***************************************************************************)
(* netlistdb/src/hier_name.rs: a HierName as the chain of its nodes, the   *)
(* cur of the node itself first and that of the last prev last.  A call    *)
(* compares and hashes two chains whose names are of HierIdents.           *)
(***************************************************************************)
MaxDepth == 3
HierIdents == {"", "a", "b"}

(* HierNameRevIter: the cur of each node from the leaf on, ending at the   *)
(* first node whose cur is empty or after the node without prev.           *)
RECURSIVE HierNameRevIter(_)
HierNameRevIter(name) ==
    IF name = <<>> THEN <<>>
    ELSE IF Head(name) = "" THEN <<>>
    ELSE <<Head(name)>> \o HierNameRevIter(Tail(name))

(* #[derive(PartialEq, Eq)]: cur and prev are compared, node by node. *)
HierNameEq(self, other) ==
    /\ Len(self) = Len(other)
    /\ \A j \in 1..Len(self) : self[j] = other[j]

(* a == b, and what impl Hash for HierName hands to the hasher for a and   *)
(* for b: each string of the iterator, in its order.                       *)
HierNameCompare ==
    /\ call[1] = "HierName::eq"
    /\ result = None
    /\ result' = Some([eq |-> HierNameEq(call[2], call[3]),
                       hash_self |-> HierNameRevIter(call[2]),
                       hash_other |-> HierNameRevIter(call[3])])
    /\ UNCHANGED <<call, sverilog_source, top, lib, pc, modules, top_name, est, db, net_sets,
                   hist, logicpin2nets, ret>>

(***************************************************************************)
(* netlistdb/src/utils.rs: ModuleMap::from on a module of up to MaxDefs    *)
(* scalar definitions, of every keyword, of the names of DefNames.         *)
(***************************************************************************)
MaxDefs == 3
DefNames == {"a", "y"}
WireDefTypes == {"Wire", "Input", "Output", "InOut"}

ModuleMapCall ==
    /\ call[1] = "ModuleMap::from"
    /\ result = None
    /\ result' = Some(ModuleMapFrom(Module(<<>>, call[2], <<>>, <<>>)))
    /\ UNCHANGED <<call, sverilog_source, top, lib, pc, modules, top_name, est, db, net_sets,
                   hist, logicpin2nets, ret>>

(***************************************************************************)
(* netlistdb/src/disjoint_set.rs: a DisjointSet of its own, in net_sets,   *)
(* on which find, merge and set_value are called in any order on the       *)
(* nodes below MaxNodes, until finalize consumes it.  finalize is called   *)
(* with a number of nodes above every node used, as the builder calls it.  *)
(***************************************************************************)
MaxNodes == 4

DsFind ==
    /\ call[1] = "DisjointSet"
    /\ result = None
    /\ \E u \in 0..(MaxNodes - 1) : net_sets' = Find(net_sets, u).ds
    /\ UNCHANGED <<call, result, sverilog_source, top, lib, pc, modules, top_name, est, db, hist,
                   logicpin2nets, ret>>

DsMerge ==
    /\ call[1] = "DisjointSet"
    /\ result = None
    /\ \E a \in 0..(MaxNodes - 1), b \in 0..(MaxNodes - 1) : net_sets' = Merge(net_sets, a, b)
    /\ UNCHANGED <<call, result, sverilog_source, top, lib, pc, modules, top_name, est, db, hist,
                   logicpin2nets, ret>>

DsSetValue ==
    /\ call[1] = "DisjointSet"
    /\ result = None
    /\ \E a \in 0..(MaxNodes - 1), v \in BOOLEAN : net_sets' = SetValue(net_sets, a, v)
    /\ UNCHANGED <<call, result, sverilog_source, top, lib, pc, modules, top_name, est, db, hist,
                   logicpin2nets, ret>>

DsFinalize ==
    /\ call[1] = "DisjointSet"
    /\ result = None
    /\ \E num_nodes \in Len(net_sets.fa)..MaxNodes :
          /\ net_sets.value_zero # None => Unwrap(net_sets.value_zero) < num_nodes
          /\ net_sets.value_one # None => Unwrap(net_sets.value_one) < num_nodes
          /\ result' = Some([num_nodes |-> num_nodes, ret |-> Finalize(net_sets, num_nodes)])
    /\ UNCHANGED <<call, sverilog_source, top, lib, pc, modules, top_name, est, db, net_sets,
                   hist, logicpin2nets, ret>>

(***************************************************************************)
(* A call of one function of the two libraries on its own: literal for     *)
(* every width up to MaxLitWidth, every radix and every string of one to   *)
(* MaxDigits bytes; the comparison of two HierName chains of up to         *)
(* MaxDepth nodes; ModuleMap::from; the calls on a new DisjointSet.        *)
(***************************************************************************)
InitCalls ==
    /\ \/ \E width \in 0..MaxLitWidth, radix \in {2, 8, 10, 16}, n \in 1..MaxDigits :
             \E f \in [1..n -> LitBytes] : call = <<"literal", width, radix, Vec(f)>>
       \/ \E m \in 1..MaxDepth, n \in 1..MaxDepth :
             \E f \in [1..m -> HierIdents], g \in [1..n -> HierIdents] :
                call = <<"HierName::eq", Vec(f), Vec(g)>>
       \/ \E n \in 0..MaxDefs :
             \E f \in [1..n -> {WireDef(typ, None, name) :
                                    typ \in WireDefTypes, name \in DefNames}] :
                call = <<"ModuleMap::from", Vec(f)>>
       \/ call = <<"DisjointSet">>
    /\ result = None
    /\ sverilog_source = <<>>
    /\ top = None
    /\ lib = "closure"
    /\ pc = "lib"
    /\ modules = EmptyMap
    /\ top_name = None
    /\ est = <<0, 0>>
    /\ db = NewNetlistDB("")
    /\ net_sets = DisjointSetNew
    /\ hist = NoHist
    /\ logicpin2nets = <<>>
    /\ ret = NoRet

NextCalls ==
    \/ LiteralCall
    \/ HierNameCompare
    \/ ModuleMapCall
    \/ DsFind
    \/ DsMerge
    \/ DsSetValue
    \/ DsFinalize

SpecCalls == InitCalls /\ [][NextCalls]_vars

(***************************************************************************)
(* Properties of the database from_sverilog returns (pc = "Some").         *)
(***************************************************************************)
LogicPins == 0..(db.num_logic_pins - 1)
Pins == 0..(db.num_pins - 1)
Nets == 0..(db.num_nets - 1)

(* The connections made during flattening: the paired bits that were      *)
(* merged, and any two bits tied to the same constant.                     *)
Links ==
    hist.conn \cup {{u, v} : u \in hist.tied0, v \in hist.tied0}
              \cup {{u, v} : u \in hist.tied1, v \in hist.tied1}

(* The logic pins a chain of connections reaches from those of S. *)
RECURSIVE Chain(_)
Chain(S) ==
    LET T == S \cup {v \in LogicPins : \E u \in S : {u, v} \in Links}
    IN IF T = S THEN S ELSE Chain(T)

Linked(u, v) == v \in Chain({u})

(* C1: in a returned database two logic pins have the same net id exactly  *)
(* when a chain of connections made during flattening links them, and so   *)
(* do two pins through pin2net.                                            *)
NetsAreChains ==
    pc = "Some" =>
        /\ \A u \in LogicPins :
              LET chain == Chain({u})
              IN \A v \in LogicPins :
                    (At(logicpin2nets, u) = At(logicpin2nets, v)) <=> (v \in chain)
        /\ \A p \in Pins :
              LET chain == Chain({At(db.pinid2logicpinid, p)})
              IN \A q \in Pins :
                    (At(db.pin2net, p) = At(db.pin2net, q))
                        <=> (At(db.pinid2logicpinid, q) \in chain)

(* A returned database with two pins that share a net through a chain of   *)
(* several connections, one of them a tie to a constant.                   *)
NetsAreChainsWitness ==
    /\ pc = "Some"
    /\ hist.tied0 # {}
    /\ \E p, q \in Pins :
          /\ p # q
          /\ At(db.pin2net, p) = At(db.pin2net, q)
          /\ {At(db.pinid2logicpinid, p), At(db.pinid2logicpinid, q)} \notin Links
    /\ \E p, q \in Pins : At(db.pin2net, p) # At(db.pin2net, q)

(* The pins of direction O of net n. *)
Drivers(n) == {p \in Pins : At(db.pin2net, p) = n /\ At(db.pindirect, p) = "O"}

MultiDriven == \E n \in Nets : Cardinality(Drivers(n)) >= 2

(* C2: when some net has two or more pins of direction O after direction   *)
(* assignment, from_sverilog returns None; a returned database has at most *)
(* one pin of direction O on each net.                                     *)
NoDatabaseIfMultiDriven ==
    /\ [][(pc = "post_assign_direction" /\ MultiDriven) => pc' = "None"]_vars
    /\ [](pc = "Some" => ~MultiDriven)

(* from_sverilog has returned None for a net with two drivers. *)
NoDatabaseIfMultiDrivenWitness ==
    /\ pc = "None"
    /\ Len(db.pindirect) = db.num_pins
    /\ Len(db.pin2net) = db.num_pins
    /\ MultiDriven

(* C3: in a returned database the first entry of the net2pin slice of a    *)
(* net that has a pin of direction O is that pin.                          *)
DriverFirst ==
    pc = "Some" =>
        \A n \in Nets :
            Drivers(n) # {} => At(db.net2pin.items, At(db.net2pin.start, n)) \in Drivers(n)

(* A returned database with a net whose driver is not its smallest pin id, *)
(* so that the swap moved it to the front.                                 *)
DriverFirstWitness ==
    /\ pc = "Some"
    /\ \E n \in Nets : \E d \in Drivers(n) : \E p \in Pins :
          At(db.pin2net, p) = n /\ p < d

(* The items of set s in a CSR. *)
CsrSlice(csr, s) ==
    {At(csr.items, k) : k \in At(csr.start, s)..(At(csr.start, s + 1) - 1)}

(* items is a permutation of 0..num_items-1 and item p lies in the slice   *)
(* of set inset[p] and in no other.                                        *)
CsrInverse(num_sets, num_items, inset, csr) ==
    /\ Len(csr.items) = num_items
    /\ \A p \in 0..(num_items - 1) :
          Cardinality({k \in 1..num_items : csr.items[k] = p}) = 1
    /\ \A p \in 0..(num_items - 1), s \in 0..(num_sets - 1) :
          (p \in CsrSlice(csr, s)) <=> (At(inset, p) = s)

(* C4: VecCSR::from(K, N, inset) returns a permutation of the items in     *)
(* which every item lies in the slice of its own set only; in a returned   *)
(* database pin2cell and pin2net are in range and cell2pin and net2pin     *)
(* hold every pin in the slice of its cell and of its net.                 *)
CsrIsInverse ==
    /\ (call[1] = "VecCSR::from" /\ result # None)
          => CsrInverse(call[2], call[3], call[4], Unwrap(result))
    /\ pc = "Some" =>
          /\ CsrInverse(db.num_cells, db.num_pins, db.pin2cell, db.cell2pin)
          /\ CsrInverse(db.num_nets, db.num_pins, db.pin2net, db.net2pin)
          /\ \A p \in Pins :
                /\ At(db.pin2cell, p) < db.num_cells
                /\ At(db.pin2net, p) < db.num_nets
                /\ p \in CsrSlice(db.cell2pin, At(db.pin2cell, p))
                /\ p \in CsrSlice(db.net2pin, At(db.pin2net, p))

(* VecCSR::from has returned for a mapping that is not sorted by set and   *)
(* leaves a set empty.                                                     *)
CsrIsInverseWitness ==
    /\ call[1] = "VecCSR::from"
    /\ result # None
    /\ \E p, q \in 0..(call[3] - 1) : p < q /\ At(call[4], p) > At(call[4], q)
    /\ \E s \in 0..(call[2] - 1) : CsrSlice(Unwrap(result), s) = {}

(* A bit tied to constant 0 and a bit tied to constant 1 are linked. *)
TiedTogether == \E u \in hist.tied0, v \in hist.tied1 : Linked(u, v)

(* C5: finalize fails, and from_sverilog returns None, exactly when a bit  *)
(* tied to constant 0 and a bit tied to constant 1 are in the same set; in *)
(* a returned database net_zero and net_one, when both defined, differ.    *)
ConstantsSeparated ==
    /\ [][pc = "finalize" => ((pc' = "None") <=> TiedTogether)]_vars
    /\ [](pc = "Some" => (db.net_zero # None /\ db.net_one # None
                             => db.net_zero # db.net_one))

(* finalize has failed on a set that holds both constants. *)
ConstantsSeparatedWitness ==
    /\ pc = "None"
    /\ db.num_logic_pins > 0
    /\ db.pinid2logicpinid = <<>>
    /\ TiedTogether

(* C6: from_sverilog never aborts with a panic.  The conflicting           *)
(* definition, the literal in a named port of the top module and the       *)
(* netnames index out of range all do.                                     *)
NeverPanics == pc # "Panic"

TopM == modules[Unwrap(top_name)].m
TopMM == modules[Unwrap(top_name)].mm

(* The bits of the top module's ports that are paired with a variable bit  *)
(* of the connected expression, in port order: the variable bit, and the   *)
(* name of the port bit's logic pin.                                       *)
PortBitRefs(top_m, top_mm) ==
    Flatten([j \in 1..Len(top_m.ports) |->
        LET port == top_m.ports[j]
            pairs == Zip(EnumInWidth(MapGet(top_mm.port_widths, port.name)),
                         EvalExpr(top_mm, port.expr))
            varbits == SelectSeq(pairs, LAMBDA pr : pr[2].k = "Var")
        IN Vec([k \in 1..Len(varbits) |->
                   << <<varbits[k][2].name, varbits[k][2].idx>>,
                      << <<>>, port.name, varbits[k][1] >> >>])])

(* C7 as stated: portname2pinid maps (P, b), P the external port name, to  *)
(* the pin of logic pin (top, P, b), for every bit b of every port P.      *)
PortKeysAreExternalNames ==
    pc = "Some" =>
        \A j \in 1..Len(TopM.ports) :
            LET name == TopM.ports[j].name
                ws == EnumInWidth(MapGet(TopMM.port_widths, name))
            IN \A k \in 1..Len(ws) :
                  /\ <<name, ws[k]>> \in DOMAIN db.portname2pinid
                  /\ db.portname2pinid[<<name, ws[k]>>] = db.pinname2id[<< <<>>, name, ws[k] >>]

(* C7: portname2pinid maps (v, i), the variable bit of the connected       *)
(* expression that bit b of port P is paired with (P and b themselves for  *)
(* a port without a connection), to the pin of logic pin (top, P, b); of   *)
(* the port bits paired with one variable bit the last in port order owns  *)
(* the key, and there are no other keys.                                   *)
PortKeysAreConnectedBits ==
    pc = "Some" =>
        LET refs == PortBitRefs(TopM, TopMM)
        IN /\ DOMAIN db.portname2pinid = {refs[k][1] : k \in 1..Len(refs)}
           /\ \A k \in 1..Len(refs) :
                 (\A k2 \in (k + 1)..Len(refs) : refs[k2][1] # refs[k][1])
                    => db.portname2pinid[refs[k][1]] = db.pinname2id[refs[k][2]]

(* A returned database of a top module with a named port connection two   *)
(* bits of which are paired with the same variable bit.                    *)
PortKeysAreConnectedBitsWitness ==
    /\ pc = "Some"
    /\ \E j \in 1..Len(TopM.ports) : TopM.ports[j].k = "Conn"
    /\ LET refs == PortBitRefs(TopM, TopMM)
       IN \E k, k2 \in 1..Len(refs) : k < k2 /\ refs[k][1] = refs[k2][1]

(* C8: in a returned database netnames has num_nets entries, entry n a     *)
(* name of net n, and the netnames task never indexes out of range.  The   *)
(* vector is allocated with one entry per net name instead.                *)
NetnamesOnePerNet ==
    /\ ("netnames" \in ret.done) => (ret.netnames # None)
    /\ pc = "Some" =>
          /\ Len(db.netnames) = db.num_nets
          /\ \A n \in Nets :
                /\ At(db.netnames, n) \in DOMAIN db.netname2id
                /\ db.netname2id[At(db.netnames, n)] = n

(* C9: in a returned database netnames[n] is not worse than any name m     *)
(* that netname2id maps to n: it is not deeper in the hierarchy, at equal  *)
(* depth its identifier is not greater, and it is not the empty name.      *)
BestNameChosen ==
    pc = "Some" =>
        \A m \in DOMAIN db.netname2id :
            LET chosen == At(db.netnames, db.netname2id[m])
            IN /\ chosen[2] # ""
               /\ Len(chosen[1]) <= Len(m[1])
               /\ Len(chosen[1]) = Len(m[1]) => ~StrLt(m[2], chosen[2])

(* A returned database with a net that has a deeper name than the chosen   *)
(* one and a name of the same depth with a greater identifier.             *)
BestNameChosenWitness ==
    /\ pc = "Some"
    /\ \E m1, m2 \in DOMAIN db.netname2id :
          LET chosen == At(db.netnames, db.netname2id[m1])
          IN /\ db.netname2id[m1] = db.netname2id[m2]
             /\ Len(chosen[1]) < Len(m1[1])
             /\ Len(chosen[1]) = Len(m2[1])
             /\ StrLt(chosen[2], m2[2])

(* C10: the returned database does not depend on the iteration order of    *)
(* netname2id: every order of the netnames loop gives the netnames of the  *)
(* database.  Two bits of one vector on one net are a tie the loop leaves  *)
(* to the order.                                                           *)
SameNetnamesInEveryOrder ==
    pc = "Some" => \A r \in TaskNetnames(db.netname2id) : r.netnames = db.netnames

(* The pins of direction O of cell c. *)
OutputPins(c) == {p \in Pins : At(db.pin2cell, p) = c /\ At(db.pindirect, p) = "O"}

(* The name of the definition that bit k of port j of the top module       *)
(* refers to: the port itself, or the variable of the paired bit of the    *)
(* connected expression (None for a literal bit).                          *)
PortBitRef(top_m, top_mm, j, k) ==
    LET port == top_m.ports[j]
        refs == EvalExpr(top_mm, port.expr)
    IN IF port.k = "Basic" THEN Some(port.name)
       ELSE IF k > Len(refs) \/ refs[k].k = "Const" THEN None
       ELSE Some(refs[k].name)

(* The bits of the ports of the top module, as pin names, whose referred   *)
(* definition has one of the types of S.                                   *)
TopPortBits(top_m, top_mm, S) ==
    UNION {LET ws == EnumInWidth(MapGet(top_mm.port_widths, top_m.ports[j].name))
           IN {<< <<>>, top_m.ports[j].name, ws[k] >> :
                  k \in {q \in 1..Len(ws) :
                            LET ref == PortBitRef(top_m, top_mm, j, q)
                            IN /\ ref # None
                               /\ Unwrap(ref) \in DOMAIN top_mm.def_types
                               /\ top_mm.def_types[Unwrap(ref)] \in S}} :
              j \in 1..Len(top_m.ports)}

(* C11: in a returned database cell2noutputs has num_cells entries, entry  *)
(* c is the number of pins of cell c that have direction O, and entry 0 is *)
(* the number of bits of the top module's input ports.                     *)
CellOutputsCounted ==
    pc = "Some" =>
        /\ Len(db.cell2noutputs) = db.num_cells
        /\ \A c \in 0..(db.num_cells - 1) :
              At(db.cell2noutputs, c) = Cardinality(OutputPins(c))
        /\ At(db.cell2noutputs, 0) = Cardinality(TopPortBits(TopM, TopMM, {"Input"}))

(* A returned database with an input port and an output port on the top   *)
(* and two leaf cells that each have an output pin and an input pin.       *)
CellOutputsCountedWitness ==
    /\ pc = "Some"
    /\ db.num_cells >= 3
    /\ At(db.cell2noutputs, 0) >= 1
    /\ \E p \in Pins : At(db.pin2cell, p) = 0 /\ At(db.pindirect, p) = "I"
    /\ \A c \in 1..(db.num_cells - 1) :
          /\ At(db.cell2noutputs, c) = 1
          /\ \E p \in Pins : At(db.pin2cell, p) = c /\ At(db.pindirect, p) = "I"

(* C12: the database netlistdb_new returns has its directions decoded from *)
(* the bytes (0 is I, 1 is O, any other Unknown), a pin of direction O     *)
(* first in the net2pin slice of every net that has one, and cell2noutputs *)
(* with num_cells entries, entry c the number of O pins of cell c.  A net  *)
(* with two drivers ends post_assign_direction early and the adapter       *)
(* returns the database as it is then.                                     *)
CffiPassesApplied ==
    (call[1] = "netlistdb_new" /\ result # None) =>
        LET d == Unwrap(result)
            outs(n) == {p \in 0..(d.num_pins - 1) :
                           At(d.pin2net, p) = n /\ At(d.pindirect, p) = "O"}
        IN /\ \A p \in 0..(d.num_pins - 1) :
                 At(d.pindirect, p) = DecodeDirection(At(call[5], p))
           /\ \A n \in 0..(d.num_nets - 1) :
                 outs(n) # {} => At(d.net2pin.items, At(d.net2pin.start, n)) \in outs(n)
           /\ Len(d.cell2noutputs) = d.num_cells
           /\ \A c \in 0..(d.num_cells - 1) :
                 At(d.cell2noutputs, c) =
                     Cardinality({p \in 0..(d.num_pins - 1) :
                                     At(d.pin2cell, p) = c /\ At(d.pindirect, p) = "O"})

(* The literal bits among the zipped (index, bit) pairs of a connection of *)
(* pin `name` of instance hier: the logic pin name and the constant.       *)
ConstPairs(hier, name, pairs) ==
    {<< <<hier, name, pairs[k][1]>>, pairs[k][2].c >> :
        k \in {q \in 1..Len(pairs) : pairs[q][2].k = "Const"}}

(* The variable bits an assignment pairs with a literal bit. *)
AssignConstPairs(hier, pairs) ==
    {<< <<hier, pairs[k][1].name, pairs[k][1].idx>>, pairs[k][2].c >> :
        k \in {q \in 1..Len(pairs) : pairs[q][1].k = "Var" /\ pairs[q][2].k = "Const"}}
    \cup
    {<< <<hier, pairs[k][2].name, pairs[k][2].idx>>, pairs[k][1].c >> :
        k \in {q \in 1..Len(pairs) : pairs[q][1].k = "Const" /\ pairs[q][2].k = "Var"}}

(* Every (logic pin name, constant) that the source connects in the        *)
(* instance hier of module m_name and in the instances below it: by a      *)
(* named port, by a cell connection or by an assignment.                   *)
RECURSIVE InstanceTies(_, _)
InstanceTies(m_name, hier) ==
    LET m == modules[m_name].m
        mm == modules[m_name].mm
    IN UNION {ConstPairs(hier, m.ports[j].name,
                         Zip(EnumInWidth(MapGet(mm.port_widths, m.ports[j].name)),
                             EvalExpr(mm, m.ports[j].expr))) :
                 j \in {q \in 1..Len(m.ports) : m.ports[q].k = "Conn"}}
       \cup
       UNION {UNION {ConstPairs(Append(hier, m.cells[j].cell_name), m.cells[j].ioports[q][1],
                                Zip(EnumInWidth(IoportRange(modules, mm, m.cells[j], q, lib)),
                                    EvalExpr(mm, m.cells[j].ioports[q][2]))) :
                        q \in 1..Len(m.cells[j].ioports)} :
                 j \in 1..Len(m.cells)}
       \cup
       UNION {InstanceTies(m.cells[j].macro_name, Append(hier, m.cells[j].cell_name)) :
                 j \in {q \in 1..Len(m.cells) : m.cells[q].macro_name \in DOMAIN modules}}
       \cup
       UNION {AssignConstPairs(hier, Zip(EvalExpr(mm, m.assigns[j].lhs),
                                         EvalExpr(mm, m.assigns[j].rhs))) :
                 j \in 1..Len(m.assigns)}

(* C13: in a returned database every bit the source connects to a 0 or an  *)
(* x literal bit has net id net_zero and every bit connected to a 1 bit    *)
(* has net id net_one; net_zero (net_one) is defined exactly when some bit *)
(* is connected to 0 or x (to 1); a bit connected to a z bit is in a       *)
(* constant net only through a chain of other connections.                 *)
ConstantBitsTied ==
    pc = "Some" =>
        LET ties == InstanceTies(Unwrap(top_name), <<>>)
            id(t) == db.logicpinname2id[t[1]]
            net(t) == At(logicpin2nets, id(t))
        IN /\ \A t \in ties : t[1] \in DOMAIN db.logicpinname2id
           /\ \A t \in ties : t[2] \in {0, 2} => db.net_zero = Some(net(t))
           /\ \A t \in ties : t[2] = 1 => db.net_one = Some(net(t))
           /\ (db.net_zero # None) <=> (\E t \in ties : t[2] \in {0, 2})
           /\ (db.net_one # None) <=> (\E t \in ties : t[2] = 1)
           /\ \A t \in ties :
                 (t[2] = 3 /\ Some(net(t)) \in {db.net_zero, db.net_one}) =>
                     \E u \in ties : u[2] # 3 /\ Linked(id(t), id(u))

(* A returned database of a source with an x bit, a 1 bit and a z bit, the *)
(* z bit on a pin that has no other connection.                            *)
ConstantBitsTiedWitness ==
    /\ pc = "Some"
    /\ LET ties == InstanceTies(Unwrap(top_name), <<>>)
       IN /\ \E t \in ties : t[2] = 2
          /\ \E t \in ties : t[2] = 1
          /\ \E t \in ties :
                /\ t[2] = 3
                /\ Some(At(logicpin2nets, db.logicpinname2id[t[1]])) \notin {db.net_zero, db.net_one}

(* The (port, bit) positions of the top module's ports. *)
TopPortPositions(top_m, top_mm) ==
    UNION {{<<j, k>> : k \in 1..Len(EnumInWidth(MapGet(top_mm.port_widths, top_m.ports[j].name)))} :
              j \in 1..Len(top_m.ports)}

(* Some port bit refers to a plain wire or to a name without definition. *)
BadPortRef(top_m, top_mm) ==
    \E jk \in TopPortPositions(top_m, top_mm) :
        LET ref == PortBitRef(top_m, top_mm, jk[1], jk[2])
        IN /\ ref # None
           /\ \/ Unwrap(ref) \notin DOMAIN top_mm.def_types
              \/ top_mm.def_types[Unwrap(ref)] = "Wire"

(* Some port bit is paired with a literal bit. *)
LiteralPortBit(top_m, top_mm) ==
    \E j \in 1..Len(top_m.ports) :
        /\ top_m.ports[j].k = "Conn"
        /\ \E k \in 1..Len(EvalExpr(top_mm, top_m.ports[j].expr)) :
              EvalExpr(top_mm, top_m.ports[j].expr)[k].k = "Const"

(* C14: in a returned database every bit of every port of the top module   *)
(* has direction O when the definition it refers to is an input, I when it *)
(* is an output and Unknown when it is an inout, and every leaf-cell pin    *)
(* has the direction the provider gives for (macro, pin name, bit index);  *)
(* no database is returned when a port bit refers to a plain wire or to a  *)
(* name without definition: assign_direction returns None, unless it has   *)
(* met a literal bit of a named port before and has aborted there.         *)
DirectionsAssigned ==
    /\ [](pc = "Some" =>
            /\ \A jk \in TopPortPositions(TopM, TopMM) :
                  LET name == TopM.ports[jk[1]].name
                      ws == EnumInWidth(MapGet(TopMM.port_widths, name))
                      ref == PortBitRef(TopM, TopMM, jk[1], jk[2])
                      key == << <<>>, name, ws[jk[2]] >>
                  IN /\ ref # None
                     /\ Unwrap(ref) \in DOMAIN TopMM.def_types
                     /\ key \in DOMAIN db.pinname2id
                     /\ LET deftype == TopMM.def_types[Unwrap(ref)]
                            dir == At(db.pindirect, db.pinname2id[key])
                        IN \/ deftype = "Input" /\ dir = "O"
                           \/ deftype = "Output" /\ dir = "I"
                           \/ deftype = "InOut" /\ dir = "Unknown"
            /\ \A p \in Pins :
                  At(db.logicpintypes, At(db.pinid2logicpinid, p)) = "LeafCellPin" =>
                      At(db.pindirect, p) =
                          DirectionOf(lib, At(db.celltypes, At(db.pin2cell, p)),
                                      At(db.pinnames, p)[2], At(db.pinnames, p)[3]))
    /\ [][(pc = "assign_direction" /\ BadPortRef(TopM, TopMM))
              => /\ pc' \in {"None", "Panic"}
                 /\ ~LiteralPortBit(TopM, TopMM) => pc' = "None"]_vars

(* A returned database of a top module with an input port and an inout     *)
(* port, and a leaf cell whose pins the provider gives directions I and O. *)
DirectionsAssignedWitness ==
    /\ pc = "Some"
    /\ TopPortBits(TopM, TopMM, {"InOut"}) # {}
    /\ TopPortBits(TopM, TopMM, {"Input"}) # {}
    /\ \E p, q \in Pins :
          /\ At(db.pin2cell, p) # 0 /\ At(db.pindirect, p) = "O"
          /\ At(db.pin2cell, q) # 0 /\ At(db.pindirect, q) = "I"

(* The bits of the two sides of assignment j of module m, paired. *)
AssignPairs(m, mm, j) == Zip(EvalExpr(mm, m.assigns[j].lhs), EvalExpr(mm, m.assigns[j].rhs))

(* The two sides of assignment j have different numbers of bits. *)
WidthMismatch(m, mm, j) ==
    Len(EvalExpr(mm, m.assigns[j].lhs)) # Len(EvalExpr(mm, m.assigns[j].rhs))

(* Assignment j pairs a literal bit with a literal bit. *)
LiteralPair(m, mm, j) ==
    \E k \in 1..Len(AssignPairs(m, mm, j)) :
        AssignPairs(m, mm, j)[k][1].k = "Const" /\ AssignPairs(m, mm, j)[k][2].k = "Const"

(* C15: build_modules returns None for an assignment whose sides have      *)
(* different widths or that pairs a literal bit with a literal bit; after a *)
(* successful build every assignment has sides of one width, each pair of  *)
(* variable bits is in one net, and a variable bit paired with a literal   *)
(* bit, on either side, is in the net of that constant.                    *)
AssignsConnected ==
    /\ [][(/\ pc = "build"
           /\ \E j \in 1..Len(TopM.assigns) :
                 WidthMismatch(TopM, TopMM, j) \/ LiteralPair(TopM, TopMM, j))
              => pc' = "None"]_vars
    /\ [](logicpin2nets # <<>> =>
            \A j \in 1..Len(TopM.assigns) :
                /\ ~WidthMismatch(TopM, TopMM, j)
                /\ \A k \in 1..Len(AssignPairs(TopM, TopMM, j)) :
                      LET lb == AssignPairs(TopM, TopMM, j)[k][1]
                          rb == AssignPairs(TopM, TopMM, j)[k][2]
                          net(eb) == At(logicpin2nets, db.logicpinname2id[<< <<>>, eb.name, eb.idx >>])
                          tied(eb, c) == /\ c \in {0, 2} => db.net_zero = Some(net(eb))
                                         /\ c = 1 => db.net_one = Some(net(eb))
                      IN CASE lb.k = "Var" /\ rb.k = "Var" -> net(lb) = net(rb)
                           [] lb.k = "Var" /\ rb.k = "Const" -> tied(lb, rb.c)
                           [] lb.k = "Const" /\ rb.k = "Var" -> tied(rb, lb.c)
                           [] OTHER -> FALSE)

(* A returned database of a top module with an assignment that has the     *)
(* literal on its left side.                                               *)
AssignsConnectedWitness ==
    /\ pc = "Some"
    /\ \E j \in 1..Len(TopM.assigns) : \E k \in 1..Len(AssignPairs(TopM, TopMM, j)) :
          /\ AssignPairs(TopM, TopMM, j)[k][1].k = "Const"
          /\ AssignPairs(TopM, TopMM, j)[k][2].k = "Var"

(* The names of the modules of the source, and those that no cell of any   *)
(* module instantiates.                                                    *)
ModuleNames == {sverilog_source[j][1] : j \in 1..Len(sverilog_source)}

Unreferenced ==
    {name \in ModuleNames :
        \A j \in 1..Len(sverilog_source) : \A q \in 1..Len(sverilog_source[j][2].cells) :
            sverilog_source[j][2].cells[q].macro_name # name}

(* C16: with no top module specified and several modules in the source,    *)
(* find_top_module selects the module that no cell instantiates when there *)
(* is exactly one, and from_sverilog returns None when there is none or    *)
(* more than one; it returns None as well when the top module specified is *)
(* not a module of the source, and selects the specified module otherwise. *)
TopModuleFound ==
    [][pc = "find_top" =>
          /\ (top = None /\ Cardinality(ModuleNames) > 1) =>
                IF Cardinality(Unreferenced) = 1
                THEN pc' # "None" /\ top_name' # None /\ Unwrap(top_name') \in Unreferenced
                ELSE pc' = "None"
          /\ (top # None /\ Unwrap(top) \notin ModuleNames) => pc' = "None"
          /\ (top # None /\ Unwrap(top) \in ModuleNames) => (pc' # "None" /\ top_name' = top)]_vars

(* find_top_module has guessed the top module of a source with two modules. *)
TopModuleFoundWitness ==
    /\ pc = "estimate"
    /\ top = None
    /\ Cardinality(ModuleNames) = 2
    /\ top_name = Some("top")

(* The leaf instances below instance hier of module m_name, as (name,      *)
(* macro), in depth-first order: the cells of a module in declaration      *)
(* order, those of a submodule instance in the place of that instance.     *)
RECURSIVE LeafInstances(_, _)
LeafInstances(m_name, hier) ==
    LET cells == modules[m_name].m.cells
    IN Flatten([j \in 1..Len(cells) |->
                   IF cells[j].macro_name \in DOMAIN modules
                   THEN LeafInstances(cells[j].macro_name, Append(hier, cells[j].cell_name))
                   ELSE << <<Append(hier, cells[j].cell_name), cells[j].macro_name>> >>])

(* build_modules has returned Some. *)
Built == pc \in {"tag", "finalize", "tasks", "assign_direction", "post_assign_direction", "Some"}

(* C17: in a built database cell 0 is the top module under the empty name  *)
(* and cells 1, 2, ... are the leaf instances in depth-first order, with   *)
(* their macros; num_cells is one more than the number of leaf instances.  *)
CellsInDfsOrder ==
    Built =>
        LET leaves == LeafInstances(Unwrap(top_name), <<>>)
        IN /\ db.num_cells = 1 + Len(leaves)
           /\ Len(db.cellnames) = db.num_cells
           /\ Len(db.celltypes) = db.num_cells
           /\ At(db.cellnames, 0) = <<>>
           /\ At(db.celltypes, 0) = Unwrap(top_name)
           /\ db.cellname2id[<<>>] = 0
           /\ \A k \in 1..Len(leaves) :
                 /\ At(db.cellnames, k) = leaves[k][1]
                 /\ At(db.celltypes, k) = leaves[k][2]
                 /\ db.cellname2id[leaves[k][1]] = k
           /\ DOMAIN db.cellname2id = {<<>>} \cup {leaves[k][1] : k \in 1..Len(leaves)}

(* A returned database in which the leaf cell of a submodule instance has  *)
(* id 1 and a leaf cell the top module declares after that instance id 2.  *)
CellsInDfsOrderWitness ==
    /\ pc = "Some"
    /\ db.num_cells = 3
    /\ Len(At(db.cellnames, 1)) = 2
    /\ Len(At(db.cellnames, 2)) = 1

(* s without the repetitions of an element after its first occurrence. *)
RECURSIVE Dedup(_, _)
Dedup(s, seen) ==
    IF s = <<>> THEN <<>>
    ELSE IF s[1] \in seen THEN Dedup(Tail(s), seen)
    ELSE <<s[1]>> \o Dedup(Tail(s), seen \cup {s[1]})

(* The logic pin names that the bits of one connection of pin `name` of    *)
(* instance new_hier name, in order: the bit of the pin, then the variable *)
(* bit of the instance hier it is paired with.                             *)
ConnNames(hier, new_hier, name, pairs) ==
    Flatten([k \in 1..Len(pairs) |->
                << <<new_hier, name, pairs[k][1]>> >>
                \o (IF pairs[k][2].k = "Var"
                    THEN << <<hier, pairs[k][2].name, pairs[k][2].idx>> >> ELSE <<>>)])

(* The logic pin names of the variable bits of the paired bits of an       *)
(* assignment of instance hier: left bit, then right bit.                  *)
AssignNames(hier, pairs) ==
    Flatten([k \in 1..Len(pairs) |->
                (IF pairs[k][1].k = "Var"
                 THEN << <<hier, pairs[k][1].name, pairs[k][1].idx>> >> ELSE <<>>)
                \o (IF pairs[k][2].k = "Var"
                    THEN << <<hier, pairs[k][2].name, pairs[k][2].idx>> >> ELSE <<>>)])

(* The logic pin names instance hier of module m_name names, in the order  *)
(* of the source: the bits of its wire definitions, the bits of its named  *)
(* port connections, then cell by cell the names of the submodule instance *)
(* and the bits of the cell's connections, then the variable bits of its   *)
(* assignments.                                                            *)
RECURSIVE AllocNames(_, _)
AllocNames(m_name, hier) ==
    LET m == modules[m_name].m
        mm == modules[m_name].mm
        ws(w) == EnumInWidth(w)
    IN Flatten([j \in 1..Len(m.defs) |->
                   Vec([k \in 1..Len(ws(m.defs[j].width)) |->
                           <<hier, m.defs[j].name, ws(m.defs[j].width)[k]>>])])
       \o
       Flatten([j \in 1..Len(m.ports) |->
                   IF m.ports[j].k = "Basic" THEN <<>>
                   ELSE LET pairs == Zip(ws(MapGet(mm.port_widths, m.ports[j].name)),
                                         EvalExpr(mm, m.ports[j].expr))
                        IN Vec([k \in 1..Len(pairs) |-> <<hier, m.ports[j].name, pairs[k][1]>>])])
       \o
       Flatten([j \in 1..Len(m.cells) |->
                   LET cell == m.cells[j]
                       new_hier == Append(hier, cell.cell_name)
                   IN (IF cell.macro_name \in DOMAIN modules
                       THEN AllocNames(cell.macro_name, new_hier) ELSE <<>>)
                      \o
                      Flatten([q \in 1..Len(cell.ioports) |->
                                  ConnNames(hier, new_hier, cell.ioports[q][1],
                                            Zip(ws(IoportRange(modules, mm, cell, q, lib)),
                                                EvalExpr(mm, cell.ioports[q][2])))])])
       \o
       Flatten([j \in 1..Len(m.assigns) |-> AssignNames(hier, AssignPairs(m, mm, j))])

(* The pins of the database: the logic pins of class TopPort or            *)
(* LeafCellPin, in increasing order of their ids.                          *)
PinLogicPins == SelectSeq(Vec([q \in 1..db.num_logic_pins |-> q - 1]),
                          LAMBDA id : IsPin(At(db.logicpintypes, id)))

(* C18: logic pin ids are given in the order the source names the logic    *)
(* pins (per instance: wire definitions, named port connections, cells in  *)
(* written order with their connections and bits in order, assignments);   *)
(* the pins are exactly the logic pins of class TopPort or LeafCellPin,    *)
(* numbered in increasing order of their logic pin ids, and carry the      *)
(* names of those logic pins.                                              *)
PinsInAllocationOrder ==
    /\ Built => db.logicpinnames = Dedup(AllocNames(Unwrap(top_name), <<>>), {})
    /\ pc \in {"tasks", "assign_direction", "post_assign_direction", "Some"} =>
          /\ db.pinid2logicpinid = PinLogicPins
          /\ db.num_pins = Len(PinLogicPins)
          /\ \A p, q \in Pins :
                (p < q) <=> (At(db.pinid2logicpinid, p) < At(db.pinid2logicpinid, q))
    /\ pc = "Some" =>
          /\ Len(db.pinnames) = db.num_pins
          /\ \A p \in Pins :
                /\ At(db.pinnames, p) = At(db.logicpinnames, At(db.pinid2logicpinid, p))
                /\ db.pinname2id[At(db.pinnames, p)] = p

(* A returned database with a top port that a named port connection names  *)
(* after the wire definitions, leaf cells below it and in a submodule      *)
(* instance, and logic pins that are no pins between the pins.             *)
PinsInAllocationOrderWitness ==
    /\ pc = "Some"
    /\ \E j \in 1..Len(TopM.ports) : TopM.ports[j].k = "Conn"
    /\ \E p \in Pins : Len(At(db.pinnames, p)[1]) = 2
    /\ \E p \in Pins : Len(At(db.pinnames, p)[1]) = 1
    /\ \E p, q \in Pins : \E u \in LogicPins :
          /\ At(db.pinid2logicpinid, p) < u
          /\ u < At(db.pinid2logicpinid, q)
          /\ ~IsPin(At(db.logicpintypes, u))

(* C19: change_cell_type(c, m) sets celltypes[c] to m and changes nothing  *)
(* else: the types of the other cells and every other field of the         *)
(* database are as before.                                                 *)
CellTypeChangeFrame ==
    [][(call # call' /\ call'[1] = "NetlistDB::change_cell_type" /\ pc' = "Some") =>
          /\ At(db'.celltypes, call'[2]) = call'[3]
          /\ Len(db'.celltypes) = Len(db.celltypes)
          /\ \A c \in 0..(db.num_cells - 1) :
                c # call'[2] => At(db'.celltypes, c) = At(db.celltypes, c)
          /\ \A field \in DOMAIN db \ {"celltypes"} : db'[field] = db[field]]_vars

(* change_cell_type has changed the macro of one of two leaf cells that    *)
(* had the same macro.                                                     *)
CellTypeChangeFrameWitness ==
    /\ pc = "Some"
    /\ call[1] = "NetlistDB::change_cell_type"
    /\ call[2] >= 1
    /\ At(db.celltypes, call[2]) = call[3]
    /\ \E c \in 1..(db.num_cells - 1) : At(db.celltypes, c) # call[3]
    /\ db.cell2noutputs # <<>>

(* C20: SVerilogRange(i, j), unless it is the empty sentinel, yields the    *)
(* |i - j| + 1 integers from i to j in that order and len() is the number  *)
(* of items yielded; the sentinel yields nothing and has length 0.  A      *)
(* range that ends at isize::MAX becomes the sentinel before it has        *)
(* yielded its last item.                                                  *)
RangeIteratesInclusive ==
    (call[1] = "SVerilogRange" /\ result # None) =>
        LET i == call[2]
            j == call[3]
            items == Unwrap(result).items
        IN IF <<i, j>> = SVerilogRangeEmpty
           THEN items = <<>> /\ Unwrap(result).len = Some(0)
           ELSE /\ Len(items) = (IF i < j THEN j - i ELSE i - j) + 1
                /\ \A k \in 1..Len(items) :
                      items[k] = IF i < j THEN i + (k - 1) ELSE i - (k - 1)
                /\ Unwrap(result).len = Some(Len(items))

(* The written digits of a literal, most significant first. *)
LitWritten(hexint) == SelectSeq(hexint, LAMBDA c : c # "_")

(* Bit k of the value and of the is-xz field the digits stand for: a bit   *)
(* above the written digits repeats the leading digit if that is a         *)
(* wildcard and is 0 otherwise.                                            *)
LitExpectedBit(digits, radix_bits, k) ==
    LET d == k \div radix_bits
        c == IF d < Len(digits) THEN digits[Len(digits) - d] ELSE digits[1]
    IN IF c \in {"x", "X"} THEN <<0, 1>>
       ELSE IF c \in {"z", "Z"} THEN <<1, 1>>
       ELSE IF d < Len(digits) THEN <<Bit(LitDigit(c), k % radix_bits), 0>>
       ELSE <<0, 0>>

(* C21: a literal of base 2, 8 or 16 whose digits are digits of the base   *)
(* or wildcards x, z, X, Z, at least one of them a wildcard, and are not   *)
(* more than the width holds, decodes to one Literal of that width whose   *)
(* value and is-xz bits are those the digits stand for, the leading        *)
(* wildcard repeated up to the width.  The decoder looks for lower-case    *)
(* wildcards only and panics on X and Z.                                   *)
LiteralWildcardsDecoded ==
    (call[1] = "literal" /\ result # None) =>
        LET width == call[2]
            radix == call[3]
            digits == LitWritten(call[4])
            radix_bits == CASE radix = 2 -> 1 [] radix = 8 -> 3 [] OTHER -> 4
        IN (/\ width >= 1
            /\ radix \in {2, 8, 16}
            /\ \E j \in 1..Len(digits) : digits[j] \in {"x", "z", "X", "Z"}
            /\ \A j \in 1..Len(digits) :
                  digits[j] \in {"x", "z", "X", "Z"} \/ LitDigit(digits[j]) < radix
            /\ Len(digits) * radix_bits < width + radix_bits)
           => /\ Unwrap(result) # None
              /\ Len(Unwrap(Unwrap(result))) = 1
              /\ LET l == Unwrap(Unwrap(result))[1]
                 IN /\ l.size = width
                    /\ \A k \in 0..(width - 1) :
                          <<Bit(l.value, k), Bit(l.is_xz, k)>> =
                              LitExpectedBit(digits, radix_bits, k)

(* C22: two HierName values whose iterated identifier sequences are equal  *)
(* compare equal and hand the same strings to the hasher, and the chain    *)
(* a/b/c hands it (c, b, a).  The derived equality compares the nodes, so  *)
(* the name a with an empty-named root node differs from the name a        *)
(* without one although both iterate to (a).                               *)
HierNameEqualityBySequence ==
    (call[1] = "HierName::eq" /\ result # None) =>
        /\ HierNameRevIter(call[2]) = HierNameRevIter(call[3]) =>
              /\ Unwrap(result).eq
              /\ Unwrap(result).hash_self = Unwrap(result).hash_other
        /\ (\A j \in 1..Len(call[2]) : call[2][j] # "") => Unwrap(result).hash_self = call[2]

(* The IO directions among the definitions of one name. *)
DefDirections(defs, name) ==
    {defs[j].typ : j \in {i \in 1..Len(defs) : defs[i].name = name}} \ {"Wire"}

(* C23: ModuleMap::from fails on its conflicting-def assertion exactly     *)
(* when some identifier is defined with two different IO directions;       *)
(* otherwise every defined identifier gets its IO direction if it has one  *)
(* and Wire if it has none, so that the result is the same for every       *)
(* order of the definitions.                                               *)
DefTypesOrderIndependent ==
    (call[1] = "ModuleMap::from" /\ result # None) =>
        LET defs == call[2]
            mm == Unwrap(result)
            names == {defs[j].name : j \in 1..Len(defs)}
        IN /\ mm.panic <=> \E name \in names : Cardinality(DefDirections(defs, name)) >= 2
           /\ ~mm.panic =>
                 /\ DOMAIN mm.def_types = names
                 /\ \A name \in names :
                       LET dirs == DefDirections(defs, name)
                       IN IF dirs = {} THEN mm.def_types[name] = "Wire"
                          ELSE mm.def_types[name] \in dirs

(* a is defined as Wire, then as Input, then as Wire again, and is an Input *)
DefTypesOrderIndependentWitness ==
    /\ call[1] = "ModuleMap::from"
    /\ result # None
    /\ call[2] = <<WireDef("Wire", None, "a"), WireDef("Input", None, "a"),
                   WireDef("Wire", None, "a")>>
    /\ ~Unwrap(result).panic
    /\ Unwrap(result).def_types["a"] = "Input"

(* The modules a module instantiates. *)
Instantiated(names) ==
    UNION {{modules[n].m.cells[j].macro_name : j \in 1..Len(modules[n].m.cells)} :
             n \in names} \cap DOMAIN modules

(* The modules below the modules of names, at any depth. *)
RECURSIVE Below(_)
Below(names) ==
    LET more == names \cup Instantiated(names)
    IN IF more = names THEN Instantiated(names) ELSE Below(more)

(* The instantiation graph reachable from the top module has a cycle. *)
RecursionFromTop ==
    /\ top_name # None
    /\ \E n \in {Unwrap(top_name)} \cup Below({Unwrap(top_name)}) : n \in Below({n})

(* The number of steps from_sverilog has left at most. *)
StepsLeft ==
    CASE pc = "module_maps" -> 14
      [] pc = "find_top" -> 13
      [] pc = "estimate" -> 12
      [] pc = "build" -> 11
      [] pc = "tag" -> 10
      [] pc = "finalize" -> 9
      [] pc = "tasks" -> 3 + Cardinality(TaskNames \ ret.done)
      [] pc = "assign_direction" -> 2
      [] pc = "post_assign_direction" -> 1
      [] OTHER -> 0

(* C24: from_sverilog ends on every input, by returning or by a panic:     *)
(* every step, each a computation that ends, takes it closer to its end.   *)
(* On a design whose instantiation graph below the top module has a cycle, *)
(* estimate_size fails, so that the call returns None from there and       *)
(* build_modules is never started.                                         *)
RecursionRejected ==
    /\ [][StepsLeft' < StepsLeft]_vars
    /\ [][(pc = "estimate" /\ RecursionFromTop) => pc' = "None"]_vars
    /\ [](RecursionFromTop => pc \in {"find_top", "estimate", "None"})

(* A module of the design was estimated and cached before the recursion    *)
(* was met: the call has returned None on the design of three modules.     *)
RecursionRejectedWitness ==
    /\ pc = "None"
    /\ RecursionFromTop
    /\ "loop" \in DOMAIN modules

(* The result slots a task writes. *)
TaskSlots(t) ==
    CASE t = "pin2cell" -> {"pinname2id", "pin2cell", "cell2pin"}
      [] t = "pinnames" -> {"pinnames"}
      [] t = "pin2net" -> {"pin2net", "net2pin"}
      [] t = "netnames" -> {"netname2id", "netnames"}
      [] t = "portname2pinid" -> {"portname2pinid"}

(* C25: while the five tasks run, in any order, a step is one task that    *)
(* has not run yet: it leaves the database, the set indices and the        *)
(* modules as they were before the fork and writes no result slot of       *)
(* another task.  The results are installed only when all five tasks have  *)
(* completed, and the tables installed are those each task computes from   *)
(* the state before the fork, as in a serial execution.                    *)
TasksIndependent ==
    /\ [][(pc = "tasks" /\ pc' = "tasks") =>
            /\ db' = db /\ logicpin2nets' = logicpin2nets /\ modules' = modules
            /\ top_name' = top_name
            /\ \E t \in TaskNames \ ret.done :
                  /\ ret'.done = ret.done \cup {t}
                  /\ \A slot \in (DOMAIN ret \ {"done", "panic"}) \ TaskSlots(t) :
                        ret'[slot] = ret[slot]]_vars
    /\ [][(pc = "tasks" /\ pc' # "tasks") =>
            /\ ret.done = TaskNames
            /\ pc' = "assign_direction" =>
                  /\ db'.pinname2id = TaskPin2Cell(db).pinname2id
                  /\ db'.pin2cell = TaskPin2Cell(db).pin2cell
                  /\ db'.cell2pin = TaskPin2Cell(db).cell2pin
                  /\ db'.pinnames = TaskPinnames(db)
                  /\ db'.pin2net = TaskPin2Net(db, logicpin2nets).pin2net
                  /\ db'.net2pin = TaskPin2Net(db, logicpin2nets).net2pin
                  /\ db'.netname2id = NetName2Id(db, logicpin2nets)
                  /\ \E r \in TaskNetnames(NetName2Id(db, logicpin2nets)) :
                        ~r.panic /\ db'.netnames = r.netnames
                  /\ db'.portname2pinid = TaskPortname2Pinid(db, TopM, TopMM).map]_vars

(* The tables of all five tasks are installed, on a design with a cell. *)
TasksIndependentWitness ==
    /\ pc = "assign_direction"
    /\ ret.done = TaskNames
    /\ db.num_cells >= 2
    /\ db.pinnames # <<>>
    /\ db.netnames # <<>>
    /\ DOMAIN db.portname2pinid # {}

(* The DisjointSet that finalize(num_nodes) was called on, with the nodes  *)
(* up to num_nodes it has not seen yet, and the group leader of a node.    *)
DsNodes == 0..(Unwrap(result).num_nodes - 1)
DsFa == FaExtend(net_sets.fa, Unwrap(result).num_nodes)
DsLeader(u) == FaRoot(DsFa, u)

(* A node given the value zero and a node given the value one are in one set. *)
DsTied ==
    /\ net_sets.value_zero # None
    /\ net_sets.value_one # None
    /\ DsLeader(Unwrap(net_sets.value_zero)) = DsLeader(Unwrap(net_sets.value_one))

(* The numbering finalize returns: as many sets as there are group         *)
(* leaders, the ids 0..num_sets-1 all used, equal ids exactly for nodes of *)
(* one set, and the sets numbered in the order of their leaders.           *)
DsNumbered ==
    LET r == Unwrap(result).ret
        leaders == {u \in DsNodes : DsLeader(u) = u}
    IN /\ r.num_sets = Cardinality(leaders)
       /\ Len(r.set_indices) = Unwrap(result).num_nodes
       /\ {At(r.set_indices, u) : u \in DsNodes} = 0..(r.num_sets - 1)
       /\ \A u \in DsNodes, v \in DsNodes :
             (At(r.set_indices, u) = At(r.set_indices, v)) <=> (DsLeader(u) = DsLeader(v))
       /\ \A u \in leaders, v \in leaders :
             u < v => At(r.set_indices, u) < At(r.set_indices, v)

(* C26 as stated: after any merge and set_value calls finalize returns the *)
(* numbering.  It returns None instead when the zero node and the one node *)
(* are in one set.                                                         *)
FinalizeAlwaysNumbers ==
    (call[1] = "DisjointSet" /\ result # None) => (Unwrap(result).ret.ok /\ DsNumbered)

(* C26: finalize returns None exactly when a node given the value zero and *)
(* a node given the value one are in one set; otherwise it returns the     *)
(* number of sets among the nodes below num_nodes and ids that are exactly *)
(* 0..num_sets-1, equal for two nodes exactly when they are in one set,    *)
(* and increasing with the index of the set's group leader.                *)
FinalizeNumbersUnlessTied ==
    (call[1] = "DisjointSet" /\ result # None) =>
        /\ Unwrap(result).ret.ok <=> ~DsTied
        /\ Unwrap(result).ret.ok => DsNumbered

(* finalize has numbered two sets of four nodes, one of them a chain of    *)
(* two parent links that holds the zero node.                              *)
FinalizeNumbersUnlessTiedWitness ==
    /\ call[1] = "DisjointSet"
    /\ result # None
    /\ Unwrap(result).num_nodes = MaxNodes
    /\ Unwrap(result).ret.ok
    /\ Unwrap(result).ret.num_sets = 2
    /\ net_sets.value_zero # None
    /\ \E u \in DsNodes :
          /\ At(DsFa, u) # u
          /\ At(DsFa, At(DsFa, u)) # At(DsFa, u)
          /\ DsLeader(u) = DsLeader(Unwrap(net_sets.value_zero))

(* C27: VecCSR::from(K, N, inset) returns start of length K + 1 that       *)
(* begins with 0, never decreases and ends with N, and items of length N   *)
(* in which the items of each set's slice are in strictly increasing       *)
(* order.                                                                  *)
CsrStartsAndOrder ==
    (call[1] = "VecCSR::from" /\ result # None) =>
        LET num_sets == call[2]
            num_items == call[3]
            csr == Unwrap(result)
        IN /\ Len(csr.start) = num_sets + 1
           /\ At(csr.start, 0) = 0
           /\ \A s \in 0..(num_sets - 1) : At(csr.start, s) <= At(csr.start, s + 1)
           /\ At(csr.start, num_sets) = num_items
           /\ Len(csr.items) = num_items
           /\ \A s \in 0..(num_sets - 1) :
                 \A p \in At(csr.start, s)..(At(csr.start, s + 1) - 1) :
                    \A q \in (p + 1)..(At(csr.start, s + 1) - 1) :
                       At(csr.items, p) < At(csr.items, q)

(* Four items in two sets, the items of each set not next to each other. *)
CsrStartsAndOrderWitness ==
    /\ call[1] = "VecCSR::from"
    /\ result # None
    /\ call[4] = <<1, 0, 1, 0>>
    /\ Unwrap(result).start = <<0, 2, 4>>
    /\ Unwrap(result).items = <<1, 3, 0, 2>>

(* The node k parent links above u. *)
RECURSIVE FaUp(_, _, _)
FaUp(fa, u, k) == IF k = 0 THEN u ELSE FaUp(fa, At(fa, u), k - 1)

(* Every parent is a node, and from every node fewer parent links than     *)
(* there are nodes lead to a node that is its own parent.                  *)
IsForest(fa) ==
    \A u \in 0..(Len(fa) - 1) :
        /\ At(fa, u) \in 0..(Len(fa) - 1)
        /\ LET s == FaUp(fa, u, Len(fa) - 1) IN At(fa, s) = s

(* C28: after any find, merge and set_value calls the parent array is a    *)
(* forest, and a find call leaves every node under the group leader it had *)
(* (a node the call has added is its own).                                 *)
ForestKept ==
    /\ [](call[1] = "DisjointSet" => IsForest(net_sets.fa))
    /\ [][(/\ call[1] = "DisjointSet"
            /\ \E u \in 0..(MaxNodes - 1) : net_sets' = Find(net_sets, u).ds)
           => LET n == Len(net_sets'.fa)
                  before == FaExtend(net_sets.fa, n)
              IN /\ n >= Len(net_sets.fa)
                 /\ \A v \in 0..(n - 1) :
                       FaUp(net_sets'.fa, v, n) = FaUp(before, v, n)]_vars

(* A chain through every node, the longest path that a find call          *)
(* compresses.                                                             *)
ForestKeptWitness ==
    /\ call[1] = "DisjointSet"
    /\ result = None
    /\ Len(net_sets.fa) = MaxNodes
    /\ \E u \in 0..(MaxNodes - 1) :
          /\ At(net_sets.fa, u) # u
          /\ At(net_sets.fa, At(net_sets.fa, u)) # At(net_sets.fa, u)
          /\ FaUp(net_sets.fa, u, MaxNodes - 1) # FaUp(net_sets.fa, u, MaxNodes - 2)

(* C29: post_assign_direction called again on a database that              *)
(* from_sverilog returned succeeds and changes nothing: the items of every *)
(* net's slice of net2pin keep their order, with the driver of a driven    *)
(* net first and no other output, and cell2noutputs (like every other      *)
(* field) is as before.                                                    *)
PostAssignDirectionIdempotent ==
    [][(call # call' /\ call'[1] = "NetlistDB::post_assign_direction") =>
          /\ result' = Some(TRUE)
          /\ db'.net2pin = db.net2pin
          /\ db'.cell2noutputs = db.cell2noutputs
          /\ db' = db
          /\ \A i \in 0..(db.num_nets - 1) :
                LET l == At(db.net2pin.start, i)
                    r == At(db.net2pin.start, i + 1)
                IN \A pos \in (l + 1)..(r - 1) :
                      At(db.pindirect, At(db'.net2pin.items, pos)) # "O"]_vars

(* The second call has run on a database with a driven net of two or more  *)
(* pins and a net without a driver.                                        *)
PostAssignDirectionIdempotentWitness ==
    /\ pc = "Some"
    /\ call[1] = "NetlistDB::post_assign_direction"
    /\ result = Some(TRUE)
    /\ \E i \in 0..(db.num_nets - 1) :
          LET l == At(db.net2pin.start, i)
              r == At(db.net2pin.start, i + 1)
          IN r - l >= 2 /\ At(db.pindirect, At(db.net2pin.items, l)) = "O"
    /\ \E i \in 0..(db.num_nets - 1) :
          NetOuts(db, db.net2pin.items, At(db.net2pin.start, i), At(db.net2pin.start, i + 1)) = <<>>

(* The cell connections of the instance hier of module m_name and of the   *)
(* instances below it: the instance the expression is read in, the cell    *)
(* instance, the pin name, the zipped pin indices and the expression bits. *)
RECURSIVE InstanceConns(_, _)
InstanceConns(m_name, hier) ==
    LET m == modules[m_name].m
        mm == modules[m_name].mm
    IN UNION {{[hier |-> hier,
                new_hier |-> Append(hier, m.cells[j].cell_name),
                name |-> m.cells[j].ioports[q][1],
                idxs |-> EnumInWidth(IoportRange(modules, mm, m.cells[j], q, lib)),
                bits |-> EvalExpr(mm, m.cells[j].ioports[q][2])] :
                  q \in 1..Len(m.cells[j].ioports)} :
                 j \in 1..Len(m.cells)}
       \cup
       UNION {InstanceConns(m.cells[j].macro_name, Append(hier, m.cells[j].cell_name)) :
                 j \in {q \in 1..Len(m.cells) : m.cells[q].macro_name \in DOMAIN modules}}

(* C30: in a returned database, for every connection .P(expr) of a leaf    *)
(* cell or of a submodule instance the number of (pin bit, expression bit) *)
(* pairs equals the bit length of expr, and every variable bit of expr has *)
(* the net id of some bit of P.                                            *)
NoConnectionBitDropped ==
    pc = "Some" =>
        \A c \in InstanceConns(Unwrap(top_name), <<>>) :
            /\ Len(Zip(c.idxs, c.bits)) = Len(c.bits)
            /\ \A k \in 1..Len(c.bits) :
                  c.bits[k].k = "Var" =>
                     LET e == <<c.hier, c.bits[k].name, c.bits[k].idx>>
                     IN /\ e \in DOMAIN db.logicpinname2id
                        /\ \E q \in 1..Len(c.idxs) :
                              LET g == <<c.new_hier, c.name, c.idxs[q]>>
                              IN /\ g \in DOMAIN db.logicpinname2id
                                 /\ At(logicpin2nets, db.logicpinname2id[g]) =
                                    At(logicpin2nets, db.logicpinname2id[e])

====
